---- MODULE Spec2Model ----
(***************************************************************************)
(* HomeAssistantClient (src/src/home_assistant_mcp/core/ha_client.py) as a *)
(* state machine.  The client's coroutines run on one asyncio event loop:  *)
(* a task keeps the loop from the point it is resumed to its next await    *)
(* that really suspends.  `running` is the task that holds the loop (0     *)
(* when the loop is free); pc[t] is the position of task t in the code.    *)
(* The backend and the network are the environment: they accept or refuse  *)
(* a connection, deliver frames and close transports while the loop is     *)
(* free.                                                                   *)
(***************************************************************************)
EXTENDS Integers, Sequences, FiniteSets, TLC

\* ------------------------------------------------------------------ bounds
MaxConns == 2        \* streaming transports the backend accepts in one run
MaxFrames == 3       \* frames the backend sends in one run
MaxMsgId == 2        \* subscribe_events calls in one run
MaxSessions == 2     \* pooled sessions created in one run
MaxListeners == 3    \* add_event_listener calls in one run
MaxRequests == 2     \* requests of the synchronous operations in one run
MaxClients == 2      \* clients that are passed to initialize_ha_client

\* ------------------------------------------------------------------ values
Tasks == {1, 2}
EventTypes == {"state_changed", "call_service"}
Callbacks == {"cb1", "cb2"}
FrameTypes == {"auth_ok", "auth_invalid", "result", "event"}
SyncOps == {"test_connection", "get_states", "get_state", "call_service",
            "get_config", "render_template", "get_events"}
Statuses == {200, 404, 500}
Bodies == {"json", "garbage"}
Failures == {"error", "timeout"}

\* The helpers above call_service and the actions callers pass to them: those
\* of the service maps and one that is in neither.
Helpers == {"control_light", "control_climate"}
Actions == {"on", "off", "toggle", "set_temperature", "set_hvac_mode", "turn_on",
            "turn_off", "dim"}

\* Addresses are sequences of parts.  Base addresses are scheme, host and port;
\* an explicit streaming address is any address; <<>> is the one not given.
Urls == {<<"http://", "localhost:8123">>, <<"https://", "example.com">>,
         <<"http://", "ha.local:8123">>}
WebsocketUrls == {<<>>, <<"wss://", "proxy.example.com", "/ha/ws">>}
Tokens == {"tokenA", "tokenB"}
Clients == 1..MaxClients

\* Values which callers and the backend supply and the client interpolates in
\* its messages: entity ids, service names, statuses, exception texts, the
\* auth response.  None of them is the credential.
Foreign == {"light.kitchen", "auth_invalid"}
None == 0

NoFrame == [type |-> "none", event_type |-> "none", n |-> 0]
NoDispatch == [n |-> 0, raised |-> FALSE]
NoResponse == [op |-> "none", status |-> 0, body |-> "none"]
NoToolResponse == [tool |-> "none"]
NoDiag == [op |-> "none", call |-> "none"]
NoConfig == [url |-> <<>>, websocket_url |-> <<>>, access_token |-> "none"]
NoMessage == [kind |-> "none", site |-> "none", text |-> <<>>]

\* A frame the backend can put on the wire; n is its serial number and stands
\* for the payload.
Frame(ty, et, k) == [type |-> ty, event_type |-> et, n |-> k]

VARIABLES
    session,          \* self.session: None or the handle of a ClientSession
    sessions,         \* every ClientSession created so far: TRUE while open
    websocket,        \* self.websocket: None or the handle of a connection
    conns,            \* every streaming connection opened so far
    message_id,       \* self._message_id
    event_listeners,  \* self.event_listeners: event type -> list of callbacks
    nframes,          \* frames the backend has sent
    running,          \* the task that holds the event loop, or 0
    pc,               \* per task: position in the code
    op,               \* per task: the public coroutine it was called with
    arg,              \* per task: event_type argument of subscribe_events
    rc,               \* per task: the connection object a recv()/close() is bound to
    ev,               \* per task: the event frame being dispatched
    idx,              \* per task: position of the for loop over the listeners
    res,              \* per task: how its last call ended ("none" while in a call)
    calls,            \* per task: listener invocations of the current dispatch
    snap,             \* per task: the listener list when the dispatch began
    prev,             \* per task: the last dispatch its listen loop completed
    event_data,       \* per task: the frame its listen loop took last
    requests,         \* requests issued through the pooled sessions
    resp,             \* per task: the response to its request, once it is there
    diag,             \* per task: the logger call its last synchronous operation made
    config,           \* the HomeAssistantConfig constructed, or NoConfig
    ha_client,        \* globals._ha_client: None or a client
    passed,           \* the client the last initialize_ha_client() was given, or None
    got,              \* what the last get_ha_client() returned or raised
    rendered,         \* the last message the client rendered: log record, error, header, frame
    scope,            \* the `async with client` block: where its caller is
    response          \* the dictionary the last tool call returned

vars == <<session, sessions, websocket, conns, message_id, event_listeners,
          nframes, running, pc, op, arg, rc, ev, idx, res, calls, snap, prev,
          event_data,
          requests, resp, diag, config, ha_client, passed, got,
          rendered, scope, response>>

sessVars == <<session, sessions>>
locals == <<op, arg, rc>>
dispVars == <<ev, idx, calls, snap, prev, event_data>>
httpVars == <<requests, resp, diag>>
setupVars == <<config, ha_client, passed, got, rendered, scope, response>>

\* ------------------------------------------------------------------ __init__
NewConn == [open |-> TRUE, inbox |-> <<>>, ready |-> FALSE, subs |-> <<>>,
            reader |-> 0]

Init ==
    /\ session = None
    /\ sessions = <<>>
    /\ websocket = None
    /\ conns = <<>>
    /\ message_id = 0
    /\ event_listeners = [T \in EventTypes |-> <<>>]
    /\ nframes = 0
    /\ running = 0
    /\ pc = [t \in Tasks |-> "idle"]
    /\ op = [t \in Tasks |-> "none"]
    /\ arg = [t \in Tasks |-> "none"]
    /\ rc = [t \in Tasks |-> 0]
    /\ ev = [t \in Tasks |-> NoFrame]
    /\ idx = [t \in Tasks |-> 0]
    /\ res = [t \in Tasks |-> "none"]
    /\ calls = [t \in Tasks |-> <<>>]
    /\ snap = [t \in Tasks |-> <<>>]
    /\ prev = [t \in Tasks |-> NoDispatch]
    /\ event_data = [t \in Tasks |-> NoFrame]
    /\ requests = 0
    /\ resp = [t \in Tasks |-> NoResponse]
    /\ diag = [t \in Tasks |-> NoDiag]
    /\ config = NoConfig
    /\ ha_client = None
    /\ passed = None
    /\ got = [error |-> "none", client |-> None]
    /\ rendered = NoMessage
    /\ scope = "out"
    /\ response = NoToolResponse

\* ------------------------------------------------------------------ helpers
\* The coroutine of task t ends: normally (r = "ok") or by raising r.  Its
\* locals die with it.
Return(t, r) ==
    /\ pc' = [pc EXCEPT ![t] = "idle"]
    /\ res' = [res EXCEPT ![t] = r]
    /\ running' = 0
    /\ op' = [op EXCEPT ![t] = "none"]
    /\ arg' = [arg EXCEPT ![t] = "none"]
    /\ rc' = [rc EXCEPT ![t] = 0]

\* Task t calls a coroutine of the client: a call starts from a free loop.
Call(t) ==
    /\ running = 0
    /\ pc[t] = "idle"

\* Task t goes on at position l; r is who holds the loop then (0: t suspended).
Goto(t, l, r) ==
    /\ pc' = [pc EXCEPT ![t] = l]
    /\ running' = r

OpenConns == {c \in 1..Len(conns) : conns[c].open}

\* ------------------------------------------------------------------ connect
\* Mutant of connect: a session is created on every call.
connect_AlwaysNew(t) ==
    /\ Call(t)
    /\ Len(sessions) < MaxSessions
    /\ sessions' = Append(sessions, TRUE)
    /\ session' = Len(sessions) + 1
    /\ res' = [res EXCEPT ![t] = "ok"]
    /\ UNCHANGED <<websocket, conns, message_id, event_listeners, nframes, setupVars, httpVars,
                   running, pc, locals, dispVars>>

\* Mutant of connect: the streaming connection is opened with the session.
connect_OpensStream(t) ==
    /\ Call(t)
    /\ IF session = None
       THEN /\ Len(sessions) < MaxSessions
            /\ sessions' = Append(sessions, TRUE)
            /\ session' = Len(sessions) + 1
       ELSE UNCHANGED sessVars
    /\ IF websocket = None /\ Len(conns) < MaxConns
       THEN /\ conns' = Append(conns, [NewConn EXCEPT !.ready = TRUE])
            /\ websocket' = Len(conns) + 1
       ELSE UNCHANGED <<websocket, conns>>
    /\ res' = [res EXCEPT ![t] = "ok"]
    /\ UNCHANGED <<message_id, event_listeners, nframes, setupVars, httpVars,
                   running, pc, locals, dispVars>>

\* connect(): creates the pooled session only when there is none.
connect(t) ==
    /\ Call(t)
    /\ IF session = None
       THEN /\ Len(sessions) < MaxSessions
            /\ sessions' = Append(sessions, TRUE)
            /\ session' = Len(sessions) + 1
       ELSE UNCHANGED sessVars
    /\ res' = [res EXCEPT ![t] = "ok"]
    /\ UNCHANGED <<websocket, conns, message_id, event_listeners, nframes, setupVars, httpVars,
                   running, pc, locals, dispVars>>

\* ------------------------------------------------------------------ disconnect
\* disconnect(), up to its first await: `if self.websocket: await close()`.
DisconnectStart(t) ==
    /\ Call(t)
    /\ res' = [res EXCEPT ![t] = "none"]
    /\ IF websocket # None
       THEN /\ conns' = [conns EXCEPT ![websocket].open = FALSE]
            /\ Goto(t, "d_ws_wait", 0)
       ELSE /\ Goto(t, "d_sess_check", t)
            /\ UNCHANGED conns
    /\ UNCHANGED <<sessVars, websocket, message_id, event_listeners, nframes, setupVars, httpVars,
                   locals, dispVars>>

\* Mutant of DisconnectWsClosed: the handle is not cleared after close().
DisconnectWsClosed_KeepsHandle(t) ==
    /\ running = 0
    /\ pc[t] = "d_ws_wait"
    /\ Goto(t, "d_sess_check", t)
    /\ UNCHANGED <<sessVars, websocket, conns, message_id, event_listeners,
                   nframes, setupVars, httpVars, res, locals, dispVars>>

\* close() has returned: `self.websocket = None`.
DisconnectWsClosed(t) ==
    /\ running = 0
    /\ pc[t] = "d_ws_wait"
    /\ websocket' = None
    /\ Goto(t, "d_sess_check", t)
    /\ UNCHANGED <<sessVars, conns, message_id, event_listeners, nframes, setupVars, httpVars, res,
                   locals, dispVars>>

\* `if self.session: await self.session.close()`.
DisconnectSession(t) ==
    /\ running = t
    /\ pc[t] = "d_sess_check"
    /\ IF session # None
       THEN /\ sessions' = [sessions EXCEPT ![session] = FALSE]
            /\ Goto(t, "d_sess_wait", 0)
            /\ UNCHANGED <<res, locals>>
       ELSE /\ Return(t, "ok")
            /\ UNCHANGED sessions
    /\ UNCHANGED <<session, websocket, conns, message_id, event_listeners,
                   nframes, setupVars, httpVars, dispVars>>

\* Mutant of DisconnectDone: disconnect() empties the listener registry.
DisconnectDone_ClearsListeners(t) ==
    /\ running = 0
    /\ pc[t] = "d_sess_wait"
    /\ session' = None
    /\ event_listeners' = [T \in EventTypes |-> <<>>]
    /\ Return(t, "ok")
    /\ UNCHANGED <<sessions, websocket, conns, message_id, nframes, setupVars,
                   httpVars, dispVars>>

\* session.close() has returned: `self.session = None`, and disconnect returns.
DisconnectDone(t) ==
    /\ running = 0
    /\ pc[t] = "d_sess_wait"
    /\ session' = None
    /\ Return(t, "ok")
    /\ UNCHANGED <<sessions, websocket, conns, message_id, event_listeners,
                   nframes, setupVars, httpVars, dispVars>>

\* ------------------------------------------------------------------ connect_websocket
\* The except clause of connect_websocket: `self.websocket = None; raise`.
\* The exception leaves subscribe_events / listen_events too, which do not
\* catch it.
ConnectFailed(t, exc) ==
    /\ websocket' = None
    /\ Return(t, exc)

\* connect_websocket() called directly: it opens a connection unconditionally.
CallConnectWebsocket(t) ==
    /\ Call(t)
    /\ op' = [op EXCEPT ![t] = "connect_websocket"]
    /\ res' = [res EXCEPT ![t] = "none"]
    /\ Goto(t, "cw_connect", 0)
    /\ UNCHANGED <<sessVars, websocket, conns, message_id, event_listeners,
                   nframes, setupVars, httpVars, arg, rc, dispVars>>

\* websockets.connect() succeeded: `self.websocket = <new connection>`, and the
\* auth frame is written to it; send() may suspend while the buffer drains.
ConnectAccepted(t) ==
    /\ running = 0
    /\ pc[t] = "cw_connect"
    /\ Len(conns) < MaxConns
    /\ conns' = Append(conns, NewConn)
    /\ websocket' = Len(conns) + 1
    /\ Goto(t, "cw_sent", 0)
    /\ UNCHANGED <<sessVars, message_id, event_listeners, nframes, setupVars, httpVars, res, locals,
                   dispVars>>

\* websockets.connect() raised (refused, unreachable, handshake timeout).
ConnectRefused(t) ==
    /\ running = 0
    /\ pc[t] = "cw_connect"
    /\ ConnectFailed(t, "OSError")
    /\ UNCHANGED <<sessVars, conns, message_id, event_listeners, nframes, setupVars, httpVars,
                   dispVars>>

\* `response = await self.websocket.recv()`: self.websocket is read again
\* here, after the send.  recv() on None raises AttributeError; recv() while
\* another coroutine waits in recv() on the same connection raises
\* RuntimeError; otherwise the task is bound to that connection.
AuthRecvCall(t) ==
    /\ running = 0
    /\ pc[t] = "cw_sent"
    /\ IF websocket = None
       THEN /\ ConnectFailed(t, "AttributeError")
            /\ UNCHANGED conns
       ELSE IF conns[websocket].reader # 0
       THEN /\ ConnectFailed(t, "RuntimeError")
            /\ UNCHANGED conns
       ELSE /\ rc' = [rc EXCEPT ![t] = websocket]
            /\ UNCHANGED <<websocket, res, op, arg>>
            /\ IF conns[websocket].inbox # <<>> \/ ~conns[websocket].open
               THEN /\ Goto(t, "cw_got", t)
                    /\ UNCHANGED conns
               ELSE /\ Goto(t, "cw_recv", 0)
                    /\ conns' = [conns EXCEPT ![websocket].reader = t]
    /\ UNCHANGED <<sessVars, message_id, event_listeners, nframes, setupVars, httpVars, dispVars>>

\* The recv() the task waits in completes: a frame arrived or the transport
\* closed.  There is no timeout: with neither, the task waits on.
AuthRecvWake(t) ==
    /\ running = 0
    /\ pc[t] = "cw_recv"
    /\ conns[rc[t]].inbox # <<>> \/ ~conns[rc[t]].open
    /\ conns' = [conns EXCEPT ![rc[t]].reader = 0]
    /\ Goto(t, "cw_got", t)
    /\ UNCHANGED <<sessVars, websocket, message_id, event_listeners, nframes, setupVars, httpVars,
                   res, locals, dispVars>>

\* Where the caller of connect_websocket goes on when it returns.
AfterConnect(o) ==
    CASE o = "subscribe" -> "s_send"
      [] o = "listen" -> "l_iter"
      [] OTHER -> "idle"

\* Mutant of AuthOk: whatever frame answers the auth frame is accepted.
AuthOk_AnyFrame(f) == f.type \in FrameTypes

\* What `auth_response.get("type") == "auth_ok"` decides.
AuthOk(f) == f.type = "auth_ok"

\* The auth response: `auth_ok` lets connect_websocket return, any other frame
\* (or the transport closed before one arrived) raises into the except clause.
AuthResponse(t) ==
    /\ running = t
    /\ pc[t] = "cw_got"
    /\ LET c == rc[t] IN
       IF conns[c].inbox = <<>>
       THEN /\ ConnectFailed(t, "ConnectionClosed")
            /\ UNCHANGED conns
       ELSE IF AuthOk(Head(conns[c].inbox))
       THEN /\ conns' = [conns EXCEPT ![c].inbox = Tail(@), ![c].ready = TRUE]
            /\ UNCHANGED websocket
            /\ IF op[t] = "connect_websocket"
               THEN Return(t, "ok")
               ELSE /\ Goto(t, AfterConnect(op[t]), t)
                    /\ UNCHANGED <<res, locals>>
       ELSE /\ conns' = [conns EXCEPT ![c].inbox = Tail(@)]
            /\ ConnectFailed(t, "AuthFailed")
    /\ UNCHANGED <<sessVars, message_id, event_listeners, nframes, setupVars, httpVars, dispVars>>

\* Mutant of NextMessageId: the counter is read and not advanced.
NextMessageId_NotAdvanced == IF message_id = 0 THEN 1 ELSE message_id

\* ------------------------------------------------------------------ subscribe_events
\* _get_next_message_id(): increments the counter and returns it.
NextMessageId == message_id + 1

\* Mutant of CallSubscribe: subscribe_events() opens a connection of its own
\* whatever self.websocket is.
CallSubscribe_Reconnects(t, T) ==
    /\ Call(t)
    /\ message_id < MaxMsgId
    /\ op' = [op EXCEPT ![t] = "subscribe"]
    /\ arg' = [arg EXCEPT ![t] = T]
    /\ res' = [res EXCEPT ![t] = "none"]
    /\ Goto(t, "cw_connect", 0)
    /\ UNCHANGED <<sessVars, websocket, conns, message_id, event_listeners,
                   nframes, setupVars, httpVars, rc, dispVars>>

\* subscribe_events(event_type), up to the connect it may need.
CallSubscribe(t, T) ==
    /\ Call(t)
    /\ message_id < MaxMsgId
    /\ op' = [op EXCEPT ![t] = "subscribe"]
    /\ arg' = [arg EXCEPT ![t] = T]
    /\ res' = [res EXCEPT ![t] = "none"]
    /\ IF websocket = None
       THEN Goto(t, "cw_connect", 0)
       ELSE Goto(t, "s_send", t)
    /\ UNCHANGED <<sessVars, websocket, conns, message_id, event_listeners,
                   nframes, setupVars, httpVars, rc, dispVars>>

\* The subscription frame: the id is taken, then the frame goes to whatever
\* self.websocket is now.
SubscribeSend(t) ==
    /\ running = t
    /\ pc[t] = "s_send"
    /\ message_id' = NextMessageId
    /\ IF websocket = None
       THEN /\ Return(t, "AttributeError")
            /\ UNCHANGED conns
       ELSE IF ~conns[websocket].open
       THEN /\ Return(t, "ConnectionClosed")
            /\ UNCHANGED conns
       ELSE /\ conns' = [conns EXCEPT ![websocket].subs =
                            Append(@, [id |-> NextMessageId, event_type |-> arg[t]])]
            /\ Return(t, "ok")
    /\ UNCHANGED <<sessVars, websocket, event_listeners, nframes, setupVars, httpVars, dispVars>>

\* ------------------------------------------------------------------ add_event_listener
NumListeners ==
    Len(event_listeners["state_changed"]) + Len(event_listeners["call_service"])

\* Mutant of add_event_listener: the callback is put in front of the list.
add_event_listener_Prepend(t, T, cb) ==
    /\ Call(t)
    /\ NumListeners < MaxListeners
    /\ event_listeners' = [event_listeners EXCEPT ![T] = <<cb>> \o @]
    /\ res' = [res EXCEPT ![t] = "ok"]
    /\ UNCHANGED <<sessVars, websocket, conns, message_id, nframes, setupVars, httpVars,
                   running, pc, locals, dispVars>>

\* add_event_listener(event_type, callback): appends, without de-duplication.
add_event_listener(t, T, cb) ==
    /\ Call(t)
    /\ NumListeners < MaxListeners
    /\ event_listeners' = [event_listeners EXCEPT ![T] = Append(@, cb)]
    /\ res' = [res EXCEPT ![t] = "ok"]
    /\ UNCHANGED <<sessVars, websocket, conns, message_id, nframes, setupVars, httpVars, running,
                   pc, locals, dispVars>>

\* ------------------------------------------------------------------ listen_events
\* listen_events(), up to the connect it may need.
CallListen(t) ==
    /\ Call(t)
    /\ op' = [op EXCEPT ![t] = "listen"]
    /\ res' = [res EXCEPT ![t] = "none"]
    /\ IF websocket = None
       THEN Goto(t, "cw_connect", 0)
       ELSE Goto(t, "l_iter", t)
    /\ UNCHANGED <<sessVars, websocket, conns, message_id, event_listeners,
                   nframes, setupVars, httpVars, arg, rc, dispVars>>

\* `async for message in self.websocket`: the iteration is bound to the object
\* self.websocket names now; None is not iterable, and the TypeError is caught
\* by listen_events' own `except Exception`.
ListenIter(t) ==
    /\ running = t
    /\ pc[t] = "l_iter"
    /\ IF websocket = None
       THEN Return(t, "ok")
       ELSE /\ rc' = [rc EXCEPT ![t] = websocket]
            /\ Goto(t, "l_next", t)
            /\ UNCHANGED <<res, op, arg>>
    /\ UNCHANGED <<sessVars, websocket, conns, message_id, event_listeners,
                   nframes, setupVars, httpVars, dispVars>>

\* The iteration asks for the next frame: recv() on the bound connection.  A
\* RuntimeError (another coroutine waits in recv()) is caught and ends the loop.
ListenRecvCall(t) ==
    /\ running = t
    /\ pc[t] = "l_next"
    /\ LET c == rc[t] IN
       IF conns[c].reader # 0
       THEN /\ Return(t, "ok")
            /\ UNCHANGED conns
       ELSE IF conns[c].inbox # <<>> \/ ~conns[c].open
       THEN /\ Goto(t, "l_got", t)
            /\ UNCHANGED <<conns, res, locals>>
       ELSE /\ Goto(t, "l_recv", 0)
            /\ conns' = [conns EXCEPT ![c].reader = t]
            /\ UNCHANGED <<res, locals>>
    /\ UNCHANGED <<sessVars, websocket, message_id, event_listeners, nframes, setupVars, httpVars,
                   dispVars>>

\* Mutant of ListenRecvWake: the recv() completes on a frame only.
ListenRecvWake_FramesOnly(t) ==
    /\ running = 0
    /\ pc[t] = "l_recv"
    /\ conns[rc[t]].inbox # <<>>
    /\ conns' = [conns EXCEPT ![rc[t]].reader = 0]
    /\ Goto(t, "l_got", t)
    /\ UNCHANGED <<sessVars, websocket, message_id, event_listeners, nframes, setupVars,
                   httpVars, res, locals, dispVars>>

\* The recv() the loop waits in completes: a frame arrived or the transport closed.
ListenRecvWake(t) ==
    /\ running = 0
    /\ pc[t] = "l_recv"
    /\ conns[rc[t]].inbox # <<>> \/ ~conns[rc[t]].open
    /\ conns' = [conns EXCEPT ![rc[t]].reader = 0]
    /\ Goto(t, "l_got", t)
    /\ UNCHANGED <<sessVars, websocket, message_id, event_listeners, nframes, setupVars, httpVars,
                   res, locals, dispVars>>

\* `event_data.get("type") == "event"` and `event_type in self.event_listeners`.
ToDispatch(f) == f.type = "event" /\ event_listeners[f.event_type] # <<>>

\* Mutant of ListenFrame: a frame that is no event ends the loop.
ListenFrame_StopsOnNonEvent(t) ==
    /\ running = t
    /\ pc[t] = "l_got"
    /\ LET c == rc[t] IN
       IF conns[c].inbox = <<>>
       THEN /\ Return(t, "ok")
            /\ UNCHANGED <<conns, dispVars>>
       ELSE LET f == Head(conns[c].inbox) IN
            /\ conns' = [conns EXCEPT ![c].inbox = Tail(@)]
            /\ event_data' = [event_data EXCEPT ![t] = f]
            /\ IF ToDispatch(f)
               THEN /\ ev' = [ev EXCEPT ![t] = f]
                    /\ idx' = [idx EXCEPT ![t] = 1]
                    /\ calls' = [calls EXCEPT ![t] = <<>>]
                    /\ snap' = [snap EXCEPT ![t] = event_listeners[f.event_type]]
                    /\ UNCHANGED <<prev, res, locals>>
                    /\ Goto(t, "l_disp", t)
               ELSE IF f.type = "event"
               THEN /\ Goto(t, "l_next", t)
                    /\ UNCHANGED <<ev, idx, calls, snap, prev, res, locals>>
               ELSE /\ Return(t, "ok")
                    /\ UNCHANGED <<ev, idx, calls, snap, prev>>
    /\ UNCHANGED <<sessVars, websocket, message_id, event_listeners, nframes, setupVars,
                   httpVars>>

\* Mutant of ListenFrame: the loop takes the newest frame received.
ListenFrame_Newest(t) ==
    /\ running = t
    /\ pc[t] = "l_got"
    /\ LET c == rc[t] IN
       IF conns[c].inbox = <<>>
       THEN /\ Return(t, "ok")
            /\ UNCHANGED <<conns, dispVars>>
       ELSE LET f == conns[c].inbox[Len(conns[c].inbox)] IN
            /\ conns' = [conns EXCEPT ![c].inbox = SubSeq(@, 1, Len(@) - 1)]
            /\ UNCHANGED <<res, locals>>
            /\ event_data' = [event_data EXCEPT ![t] = f]
            /\ IF ToDispatch(f)
               THEN /\ ev' = [ev EXCEPT ![t] = f]
                    /\ idx' = [idx EXCEPT ![t] = 1]
                    /\ calls' = [calls EXCEPT ![t] = <<>>]
                    /\ snap' = [snap EXCEPT ![t] = event_listeners[f.event_type]]
                    /\ UNCHANGED prev
                    /\ Goto(t, "l_disp", t)
               ELSE /\ Goto(t, "l_next", t)
                    /\ UNCHANGED <<ev, idx, calls, snap, prev>>
    /\ UNCHANGED <<sessVars, websocket, message_id, event_listeners, nframes, setupVars,
                   httpVars>>

\* One turn of the loop body up to the dispatch: the transport closed
\* (ConnectionClosed, caught: the call returns), a frame that is no event
\* (ignored), an event of a type nobody listens to (ignored), or an event to
\* dispatch.
ListenFrame(t) ==
    /\ running = t
    /\ pc[t] = "l_got"
    /\ LET c == rc[t] IN
       IF conns[c].inbox = <<>>
       THEN /\ Return(t, "ok")
            /\ UNCHANGED <<conns, dispVars>>
       ELSE LET f == Head(conns[c].inbox) IN
            /\ conns' = [conns EXCEPT ![c].inbox = Tail(@)]
            /\ UNCHANGED <<res, locals>>
            /\ event_data' = [event_data EXCEPT ![t] = f]
            /\ IF ToDispatch(f)
               THEN /\ ev' = [ev EXCEPT ![t] = f]
                    /\ idx' = [idx EXCEPT ![t] = 1]
                    /\ calls' = [calls EXCEPT ![t] = <<>>]
                    /\ snap' = [snap EXCEPT ![t] = event_listeners[f.event_type]]
                    /\ UNCHANGED prev
                    /\ Goto(t, "l_disp", t)
               ELSE /\ Goto(t, "l_next", t)
                    /\ UNCHANGED <<ev, idx, calls, snap, prev>>
    /\ UNCHANGED <<sessVars, websocket, message_id, event_listeners, nframes, setupVars, httpVars>>

\* Mutant of ListenersOf: every event goes to the state_changed listeners.
ListenersOf_AnyType(f) == event_listeners["state_changed"]

\* Mutant of ListenersOf: a callback registered more than once is walked once.
ListenersOf_Distinct(f) ==
    LET ls == event_listeners[f.event_type]
        first == {k \in 1..Len(ls) : \A j \in 1..(k - 1) : ls[j] # ls[k]}
    IN  IF Cardinality(first) = 2
        THEN <<ls[1], ls[CHOOSE k \in first : k # 1]>>
        ELSE SubSeq(ls, 1, Cardinality(first))

\* The listeners the for loop walks: those of the event's type.
ListenersOf(f) == event_listeners[f.event_type]

\* `for listener in self.event_listeners[event_type]`: the list iterator looks
\* at the live list, so it sees what is appended while it runs.  The listener
\* is awaited: it may suspend.  After the last one the loop asks for the next
\* frame; prev keeps which frame this was and whether a listener raised.
Dispatch(t) ==
    /\ running = t
    /\ pc[t] = "l_disp"
    /\ IF idx[t] <= Len(ListenersOf(ev[t]))
       THEN /\ Goto(t, "l_cb", 0)
            /\ UNCHANGED dispVars
       ELSE /\ Goto(t, "l_next", t)
            /\ ev' = [ev EXCEPT ![t] = NoFrame]
            /\ idx' = [idx EXCEPT ![t] = 0]
            /\ calls' = [calls EXCEPT ![t] = <<>>]
            /\ snap' = [snap EXCEPT ![t] = <<>>]
            /\ prev' = [prev EXCEPT ![t] =
                          [n |-> ev[t].n,
                           raised |-> \E k \in 1..Len(calls[t]) : calls[t][k].raised]]
            /\ UNCHANGED event_data
    /\ UNCHANGED <<sessVars, websocket, conns, message_id, event_listeners,
                   nframes, setupVars, httpVars, res, locals>>

\* Mutant of ListenerDone: a listener that raises ends the for loop; the
\* listeners after it are skipped and the loop asks for the next frame.
ListenerDone_SkipsRest(t, raised) ==
    /\ running = 0
    /\ pc[t] = "l_cb"
    /\ IF raised
       THEN /\ ev' = [ev EXCEPT ![t] = NoFrame]
            /\ idx' = [idx EXCEPT ![t] = 0]
            /\ calls' = [calls EXCEPT ![t] = <<>>]
            /\ snap' = [snap EXCEPT ![t] = <<>>]
            /\ prev' = [prev EXCEPT ![t] = [n |-> ev[t].n, raised |-> TRUE]]
            /\ UNCHANGED event_data
            /\ Goto(t, "l_next", t)
       ELSE /\ calls' = [calls EXCEPT ![t] = Append(@,
                            [cb |-> event_listeners[ev[t].event_type][idx[t]],
                             n |-> ev[t].n, raised |-> raised])]
            /\ idx' = [idx EXCEPT ![t] = @ + 1]
            /\ Goto(t, "l_disp", t)
            /\ UNCHANGED <<ev, snap, prev, event_data>>
    /\ UNCHANGED <<sessVars, websocket, conns, message_id, event_listeners,
                   nframes, setupVars, httpVars, res, locals>>

\* Mutant of ListenerDone: the exception of a listener reaches the except
\* clause of listen_events, which returns.
ListenerDone_Propagates(t, raised) ==
    /\ running = 0
    /\ pc[t] = "l_cb"
    /\ IF raised
       THEN /\ Return(t, "ok")
            /\ UNCHANGED dispVars
       ELSE /\ calls' = [calls EXCEPT ![t] = Append(@,
                            [cb |-> event_listeners[ev[t].event_type][idx[t]],
                             n |-> ev[t].n, raised |-> raised])]
            /\ idx' = [idx EXCEPT ![t] = @ + 1]
            /\ Goto(t, "l_disp", t)
            /\ UNCHANGED <<ev, snap, prev, event_data, res, locals>>
    /\ UNCHANGED <<sessVars, websocket, conns, message_id, event_listeners,
                   nframes, setupVars, httpVars>>

\* The awaited listener ends, by returning or by raising an Exception, which
\* is caught and logged; the for loop goes on either way.
ListenerDone(t, raised) ==
    /\ running = 0
    /\ pc[t] = "l_cb"
    /\ calls' = [calls EXCEPT ![t] = Append(@,
                    [cb |-> ListenersOf(ev[t])[idx[t]], n |-> ev[t].n,
                     raised |-> raised])]
    /\ idx' = [idx EXCEPT ![t] = @ + 1]
    /\ Goto(t, "l_disp", t)
    /\ UNCHANGED <<sessVars, websocket, conns, message_id, event_listeners,
                   nframes, setupVars, httpVars, res, locals, ev, snap, prev, event_data>>

\* ------------------------------------------------------------------ synchronous operations
\* What each operation returns from its `except Exception` clause.
Sentinel(o) ==
    CASE o \in {"get_states", "get_events"} -> "[]"
      [] o \in {"get_state", "get_config", "render_template"} -> "None"
      [] OTHER -> "False"

\* What each operation returns when the request succeeded and the body parsed.
Success(o) ==
    IF o \in {"test_connection", "call_service"} THEN "True" ELSE "data"

\* Mutant of Result: the error of raise_for_status() leaves the operation.
Result_RaisesOnStatus(o, r) ==
    IF r.body \in Failures THEN Sentinel(o)
    ELSE IF r.status >= 400 /\ o \notin {"test_connection"} THEN "ClientResponseError"
    ELSE IF r.body # "json" THEN Sentinel(o)
    ELSE Success(o)

\* The body of the `async with self.session.get/post(...)` block, given the
\* response r: a transport error or timeout raises out of the request; json()
\* raises on a body that does not parse; test_connection and get_state test
\* the status themselves, the others call raise_for_status().  Every exception
\* is caught by the operation's own except clause.
Result(o, r) ==
    IF r.body \in Failures THEN Sentinel(o)
    ELSE IF o = "test_connection"
    THEN IF r.status = 200 /\ r.body = "json" THEN "True" ELSE "False"
    ELSE IF o = "get_state"
    THEN IF r.status = 200 /\ r.body = "json" THEN "data" ELSE "None"
    ELSE IF r.status >= 400 \/ r.body # "json" THEN Sentinel(o)
    ELSE Success(o)

\* Mutant of Diagnostic: the 404 of get_state is logged like any failure.
Diagnostic_Conflated(o, r) ==
    IF r.body \in Failures THEN [op |-> o, call |-> "error"]
    ELSE IF o = "test_connection"
    THEN IF r.status # 200 THEN [op |-> o, call |-> "status"]
         ELSE IF r.body = "json" THEN [op |-> o, call |-> "info"]
         ELSE [op |-> o, call |-> "error"]
    ELSE IF r.status >= 400 \/ r.body # "json" THEN [op |-> o, call |-> "error"]
    ELSE IF o = "call_service" THEN [op |-> o, call |-> "info"]
    ELSE NoDiag

\* The logger call an operation makes on the response r: the error call of its
\* except clause when something raised (request, raise_for_status(), json());
\* test_connection logs the version on success and the status otherwise;
\* get_state logs a warning on 404; call_service logs its success; the other
\* operations log nothing on success.
Diagnostic(o, r) ==
    IF r.body \in Failures THEN [op |-> o, call |-> "error"]
    ELSE IF o = "test_connection"
    THEN IF r.status # 200 THEN [op |-> o, call |-> "status"]
         ELSE IF r.body = "json" THEN [op |-> o, call |-> "info"]
         ELSE [op |-> o, call |-> "error"]
    ELSE IF o = "get_state" /\ r.status = 404 THEN [op |-> o, call |-> "not_found"]
    ELSE IF r.status >= 400 \/ r.body # "json" THEN [op |-> o, call |-> "error"]
    ELSE IF o = "call_service" THEN [op |-> o, call |-> "info"]
    ELSE NoDiag

\* The level of a logger call: logger.info, logger.warning or logger.error.
Level(d) ==
    CASE d.call = "info" -> "info"
      [] d.call = "not_found" -> "warning"
      [] d.call = "closed" -> "warning"
      [] d.call \in {"status", "error", "listener_error"} -> "error"
      [] OTHER -> "none"

\* Mutant of CallSync: the AttributeError of a missing session is not caught.
CallSync_NoSessionRaises(t, o) ==
    /\ Call(t)
    /\ resp' = [resp EXCEPT ![t] = NoResponse]
    /\ IF session = None \/ ~sessions[session]
       THEN /\ res' = [res EXCEPT ![t] = "AttributeError"]
            /\ diag' = [diag EXCEPT ![t] = NoDiag]
            /\ UNCHANGED <<requests, running, pc, locals>>
       ELSE /\ requests < MaxRequests
            /\ requests' = requests + 1
            /\ diag' = [diag EXCEPT ![t] = NoDiag]
            /\ op' = [op EXCEPT ![t] = o]
            /\ res' = [res EXCEPT ![t] = "none"]
            /\ Goto(t, "h_wait", 0)
            /\ UNCHANGED <<arg, rc>>
    /\ UNCHANGED <<sessVars, websocket, conns, message_id, event_listeners,
                   nframes, setupVars, dispVars>>

\* A synchronous operation is called.  Without a session, `self.session.get`
\* is an attribute of None: the AttributeError is caught and the sentinel is
\* returned before anything is awaited.  A closed session raises RuntimeError
\* from the request, caught likewise.  Otherwise one request is issued and the
\* task waits for its response.
CallSync(t, o) ==
    /\ Call(t)
    /\ resp' = [resp EXCEPT ![t] = NoResponse]
    /\ IF session = None \/ ~sessions[session]
       THEN /\ res' = [res EXCEPT ![t] = Sentinel(o)]
            /\ diag' = [diag EXCEPT ![t] = [op |-> o, call |-> "error"]]
            /\ UNCHANGED <<requests, running, pc, locals>>
       ELSE /\ requests < MaxRequests
            /\ requests' = requests + 1
            /\ diag' = [diag EXCEPT ![t] = NoDiag]
            /\ op' = [op EXCEPT ![t] = o]
            /\ res' = [res EXCEPT ![t] = "none"]
            /\ Goto(t, "h_wait", 0)
            /\ UNCHANGED <<arg, rc>>
    /\ UNCHANGED <<sessVars, websocket, conns, message_id, event_listeners,
                   nframes, setupVars, dispVars>>

\* service_map of control_light and of control_climate, with the domain the
\* helper passes to call_service.
ServiceMap(h) ==
    IF h = "control_light"
    THEN [on |-> "light.turn_on", off |-> "light.turn_off", toggle |-> "light.toggle"]
    ELSE [set_temperature |-> "climate.set_temperature",
          set_hvac_mode |-> "climate.set_hvac_mode",
          turn_on |-> "climate.turn_on", turn_off |-> "climate.turn_off"]

\* Mutant of control: an action that is not in the map is passed on to
\* call_service as the service name.
control_PassesUnknown(t, h, a) ==
    /\ Call(t)
    /\ resp' = [resp EXCEPT ![t] = NoResponse]
    /\ IF session = None \/ ~sessions[session]
       THEN /\ res' = [res EXCEPT ![t] = "False"]
            /\ diag' = [diag EXCEPT ![t] = [op |-> "call_service", call |-> "error"]]
            /\ UNCHANGED <<requests, running, pc, locals>>
       ELSE /\ requests < MaxRequests
            /\ requests' = requests + 1
            /\ diag' = [diag EXCEPT ![t] = NoDiag]
            /\ op' = [op EXCEPT ![t] = "call_service"]
            /\ arg' = [arg EXCEPT ![t] =
                          IF a \in DOMAIN ServiceMap(h) THEN ServiceMap(h)[a] ELSE a]
            /\ res' = [res EXCEPT ![t] = "none"]
            /\ Goto(t, "h_wait", 0)
            /\ UNCHANGED rc
    /\ UNCHANGED <<sessVars, websocket, conns, message_id, event_listeners,
                   nframes, setupVars, dispVars>>

\* control_light(entity_id, a) and control_climate(entity_id, a).  An action
\* that is not in the service map is logged and False is returned at once;
\* otherwise the helper returns what call_service(domain, service) returns,
\* which is one request when the client has a session.
control(t, h, a) ==
    /\ Call(t)
    /\ resp' = [resp EXCEPT ![t] = NoResponse]
    /\ IF a \notin DOMAIN ServiceMap(h)
       THEN /\ res' = [res EXCEPT ![t] = "False"]
            /\ diag' = [diag EXCEPT ![t] = [op |-> h, call |-> "error"]]
            /\ UNCHANGED <<requests, running, pc, locals>>
       ELSE IF session = None \/ ~sessions[session]
       THEN /\ res' = [res EXCEPT ![t] = "False"]
            /\ diag' = [diag EXCEPT ![t] = [op |-> "call_service", call |-> "error"]]
            /\ UNCHANGED <<requests, running, pc, locals>>
       ELSE /\ requests < MaxRequests
            /\ requests' = requests + 1
            /\ diag' = [diag EXCEPT ![t] = NoDiag]
            /\ op' = [op EXCEPT ![t] = "call_service"]
            /\ arg' = [arg EXCEPT ![t] = ServiceMap(h)[a]]
            /\ res' = [res EXCEPT ![t] = "none"]
            /\ Goto(t, "h_wait", 0)
            /\ UNCHANGED rc
    /\ UNCHANGED <<sessVars, websocket, conns, message_id, event_listeners,
                   nframes, setupVars, dispVars>>

\* Mutant of SyncReturn: an operation that failed drops the session.
SyncReturn_DropsSession(t) ==
    /\ running = 0
    /\ pc[t] = "h_wait"
    /\ resp[t] # NoResponse
    /\ diag' = [diag EXCEPT ![t] = Diagnostic(op[t], resp[t])]
    /\ Return(t, Result(op[t], resp[t]))
    /\ session' = IF Result(op[t], resp[t]) = Sentinel(op[t]) THEN None ELSE session
    /\ UNCHANGED <<sessions, websocket, conns, message_id, event_listeners,
                   nframes, setupVars, dispVars, requests, resp>>

\* Mutant of SyncReturn: a request that failed is issued once more.
SyncReturn_RetriesOnFailure(t) ==
    /\ running = 0
    /\ pc[t] = "h_wait"
    /\ resp[t] # NoResponse
    /\ IF Result(op[t], resp[t]) = Sentinel(op[t]) /\ requests < MaxRequests
       THEN /\ requests' = requests + 1
            /\ resp' = [resp EXCEPT ![t] = NoResponse]
            /\ UNCHANGED <<running, pc, res, locals, diag>>
       ELSE /\ Return(t, Result(op[t], resp[t]))
            /\ diag' = [diag EXCEPT ![t] = Diagnostic(op[t], resp[t])]
            /\ UNCHANGED <<requests, resp>>
    /\ UNCHANGED <<sessVars, websocket, conns, message_id, event_listeners,
                   nframes, setupVars, dispVars>>

\* The request of task t has its outcome; the operation makes its logger
\* call, computes its return value and returns.  It issues no further request.
SyncReturn(t) ==
    /\ running = 0
    /\ pc[t] = "h_wait"
    /\ resp[t] # NoResponse
    /\ diag' = [diag EXCEPT ![t] = Diagnostic(op[t], resp[t])]
    /\ Return(t, Result(op[t], resp[t]))
    /\ UNCHANGED <<sessVars, websocket, conns, message_id, event_listeners,
                   nframes, setupVars, dispVars, requests, resp>>

\* ------------------------------------------------------------------ HomeAssistantConfig
\* str.startswith(p).
StartsWith(u, p) == u # <<>> /\ u[1] = p

\* str.replace(old, new): every occurrence is replaced.
Replace(u, old, new) == [k \in 1..Len(u) |-> IF u[k] = old THEN new ELSE u[k]]

\* Mutant of WebsocketUrl: the secure scheme is not told from the plain one.
WebsocketUrl_AlwaysPlain(u, w) ==
    IF w # <<>> THEN w
    ELSE Replace(Replace(u, "https://", "ws://"), "http://", "ws://")
            \o <<"/api/websocket">>

\* The websocket_url that __init__ leaves: the one given, or the one derived
\* from url when none (or an empty one) is given.
WebsocketUrl(u, w) ==
    IF w # <<>> THEN w
    ELSE IF StartsWith(u, "https://")
    THEN Replace(u, "https://", "wss://") \o <<"/api/websocket">>
    ELSE Replace(u, "http://", "ws://") \o <<"/api/websocket">>

\* HomeAssistantConfig(url=u, websocket_url=w, access_token=tok).
HomeAssistantConfig(u, w, tok) ==
    /\ config = NoConfig
    /\ config' = [url |-> u, websocket_url |-> WebsocketUrl(u, w),
                  access_token |-> tok]
    /\ UNCHANGED <<sessVars, websocket, conns, message_id, event_listeners,
                   nframes, running, pc, res, locals, dispVars, httpVars,
                   ha_client, passed, got, rendered, scope, response>>

\* ------------------------------------------------------------------ globals
\* Mutant of initialize_ha_client: the first client is kept.
initialize_ha_client_KeepsFirst(c) ==
    /\ ha_client' = IF ha_client = None THEN c ELSE ha_client
    /\ passed' = c
    /\ UNCHANGED <<sessVars, websocket, conns, message_id, event_listeners,
                   nframes, running, pc, res, locals, dispVars, httpVars,
                   config, got, rendered, scope, response>>

\* initialize_ha_client(client): `_ha_client = client`.
initialize_ha_client(c) ==
    /\ ha_client' = c
    /\ passed' = c
    /\ UNCHANGED <<sessVars, websocket, conns, message_id, event_listeners,
                   nframes, running, pc, res, locals, dispVars, httpVars,
                   config, got, rendered, scope, response>>

\* get_ha_client(): raises RuntimeError while _ha_client is None, and returns
\* _ha_client otherwise.
get_ha_client ==
    /\ got' = IF ha_client = None
              THEN [error |-> "RuntimeError", client |-> None]
              ELSE [error |-> "none", client |-> ha_client]
    /\ UNCHANGED <<sessVars, websocket, conns, message_id, event_listeners,
                   nframes, running, pc, res, locals, dispVars, httpVars,
                   config, ha_client, passed, rendered, scope, response>>

\* ------------------------------------------------------------------ messages
\* The places of ha_client.py where a message is rendered: the logger calls,
\* the raise of connect_websocket, the Authorization headers and the auth
\* frame.
Sites ==
    {[op |-> o, call |-> "error"] : o \in SyncOps}
    \cup {[op |-> "connect", call |-> c] : c \in {"header", "info"}}
    \cup {[op |-> "disconnect", call |-> "info"]}
    \cup {[op |-> "test_connection", call |-> c] : c \in {"info", "status"}}
    \cup {[op |-> "get_state", call |-> "not_found"]}
    \cup {[op |-> "call_service", call |-> "info"]}
    \cup {[op |-> o, call |-> "error"] : o \in {"control_light", "control_climate"}}
    \cup {[op |-> "connect_websocket", call |-> c] :
            c \in {"header", "frame", "info", "raise", "error"}}
    \cup {[op |-> "subscribe_events", call |-> "info"]}
    \cup {[op |-> "listen_events", call |-> c] :
            c \in {"listener_error", "closed", "error"}}

\* What a place produces: a log record, the message of a raised error, a
\* request header or a frame sent to the backend.
Kind(d) ==
    CASE d.call = "header" -> "header"
      [] d.call = "frame" -> "frame"
      [] d.call = "raise" -> "error"
      [] OTHER -> "log"

\* The f-string (or literal, or json.dumps) of each place, as the sequence of
\* its parts; x and y are the values interpolated from callers and backend.
Text(d, x, y) ==
    CASE d.call = "header" -> <<"Bearer ", config.access_token>>
      [] d.call = "frame" ->
            <<"{type: auth, access_token: ", config.access_token, "}">>
      [] d.call = "raise" -> <<"WebSocket auth failed: ", x>>
      [] d = [op |-> "connect", call |-> "info"] ->
            <<"Connected to Home Assistant at ">> \o config.url
      [] d = [op |-> "disconnect", call |-> "info"] ->
            <<"Disconnected from Home Assistant">>
      [] d = [op |-> "test_connection", call |-> "info"] -> <<"Connected to HA ", x>>
      [] d = [op |-> "test_connection", call |-> "status"] ->
            <<"HA API returned status ", x>>
      [] d = [op |-> "test_connection", call |-> "error"] ->
            <<"Connection test failed: ", x>>
      [] d = [op |-> "get_states", call |-> "error"] -> <<"Failed to get states: ", x>>
      [] d = [op |-> "get_state", call |-> "not_found"] -> <<"Entity not found: ", x>>
      [] d = [op |-> "get_state", call |-> "error"] ->
            <<"Failed to get state for ", x, ": ", y>>
      [] d = [op |-> "call_service", call |-> "info"] ->
            <<"Service ", x, " called successfully">>
      [] d = [op |-> "call_service", call |-> "error"] ->
            <<"Failed to call service ", x, ": ", y>>
      [] d = [op |-> "get_config", call |-> "error"] -> <<"Failed to get config: ", x>>
      [] d = [op |-> "render_template", call |-> "error"] ->
            <<"Failed to render template: ", x>>
      [] d = [op |-> "get_events", call |-> "error"] -> <<"Failed to get events: ", x>>
      [] d = [op |-> "control_light", call |-> "error"] ->
            <<"Unknown light action: ", x>>
      [] d = [op |-> "control_climate", call |-> "error"] ->
            <<"Unknown climate action: ", x>>
      [] d = [op |-> "connect_websocket", call |-> "info"] ->
            <<"WebSocket authentication successful">>
      [] d = [op |-> "connect_websocket", call |-> "error"] ->
            <<"WebSocket connection failed: ", x>>
      [] d = [op |-> "subscribe_events", call |-> "info"] ->
            <<"Subscribed to ", x, " events">>
      [] d = [op |-> "listen_events", call |-> "listener_error"] ->
            <<"Event listener error: ", x>>
      [] d = [op |-> "listen_events", call |-> "closed"] ->
            <<"WebSocket connection closed">>
      [] d = [op |-> "listen_events", call |-> "error"] ->
            <<"WebSocket listen error: ", x>>

\* Mutant of Message: the error raised on an auth rejection shows the auth
\* frame that was sent.
Message_ShowsAuthFrame(d, x, y) ==
    [kind |-> Kind(d), site |-> d,
     text |-> IF d.call = "raise"
              THEN <<"WebSocket auth failed: ", config.access_token>>
              ELSE Text(d, x, y)]

\* The message rendered at place d.
Message(d, x, y) == [kind |-> Kind(d), site |-> d, text |-> Text(d, x, y)]

\* The client, configured, renders the message of one of its places.
Render(d, x, y) ==
    /\ config # NoConfig
    /\ rendered' = Message(d, x, y)
    /\ UNCHANGED <<sessVars, websocket, conns, message_id, event_listeners,
                   nframes, running, pc, res, locals, dispVars, httpVars,
                   config, ha_client, passed, got, scope, response>>

\* ------------------------------------------------------------------ environment
\* The backend answers the request of task t with a status and a body.
HttpRespond(t, st, b) ==
    /\ running = 0
    /\ pc[t] = "h_wait"
    /\ resp[t] = NoResponse
    /\ resp' = [resp EXCEPT ![t] = [op |-> op[t], status |-> st, body |-> b]]
    /\ UNCHANGED <<sessVars, websocket, conns, message_id, event_listeners,
                   nframes, setupVars, running, pc, res, locals, dispVars, requests,
                   diag>>

\* The request of task t fails in the transport (refused, reset, DNS) or runs
\* into the session's total timeout.
HttpFail(t, why) ==
    /\ running = 0
    /\ pc[t] = "h_wait"
    /\ resp[t] = NoResponse
    /\ resp' = [resp EXCEPT ![t] = [op |-> op[t], status |-> 0, body |-> why]]
    /\ UNCHANGED <<sessVars, websocket, conns, message_id, event_listeners,
                   nframes, setupVars, running, pc, res, locals, dispVars, requests,
                   diag>>

\* The backend sends a frame on an open connection.
BackendSend(c, ty, et) ==
    /\ running = 0
    /\ c \in OpenConns
    /\ nframes < MaxFrames
    /\ nframes' = nframes + 1
    /\ conns' = [conns EXCEPT ![c].inbox = Append(@, Frame(ty, et, nframes + 1))]
    /\ UNCHANGED <<sessVars, websocket, message_id, event_listeners, running,
                   pc, res, locals, dispVars, httpVars, setupVars>>

\* The transport of a connection closes (backend, network, keepalive).
TransportClose(c) ==
    /\ running = 0
    /\ c \in OpenConns
    /\ conns' = [conns EXCEPT ![c].open = FALSE]
    /\ UNCHANGED <<sessVars, websocket, message_id, event_listeners, nframes, setupVars, httpVars,
                   running, pc, res, locals, dispVars>>

\* ------------------------------------------------------------------ async with
\* The caller is outside the `async with client` block: it never entered one,
\* or the `__aexit__` of the last one has returned.
Left(t) == scope = "out" \/ (scope \in {"exit", "exit_raised"} /\ pc[t] = "idle")

\* The exception of the body reaches the caller of the block: the body raised
\* and `__aexit__`, which returns None, does not suppress it.
Propagated(t) == scope = "exit_raised" /\ pc[t] = "idle"

\* `__aenter__`: `await self.connect(); return self`, and the body begins.
aenter(t) ==
    /\ Call(t)
    /\ Left(t)
    /\ IF session = None
       THEN /\ Len(sessions) < MaxSessions
            /\ sessions' = Append(sessions, TRUE)
            /\ session' = Len(sessions) + 1
       ELSE UNCHANGED sessVars
    /\ res' = [res EXCEPT ![t] = "ok"]
    /\ scope' = "body"
    /\ UNCHANGED <<websocket, conns, message_id, event_listeners, nframes, httpVars,
                   config, ha_client, passed, got, rendered, response,
                   running, pc, locals, dispVars>>

\* Mutant of aexit: `__aexit__` returns without calling disconnect().
aexit_NoDisconnect(t, raised) ==
    /\ Call(t)
    /\ scope = "body"
    /\ scope' = IF raised THEN "exit_raised" ELSE "exit"
    /\ res' = [res EXCEPT ![t] = "ok"]
    /\ UNCHANGED <<sessVars, websocket, conns, message_id, event_listeners, nframes, httpVars,
                   config, ha_client, passed, got, rendered, response,
                   running, pc, locals, dispVars>>

\* The body ends, normally or by raising, and `__aexit__` runs
\* `await self.disconnect()` up to its first await.
aexit(t, raised) ==
    /\ Call(t)
    /\ scope = "body"
    /\ scope' = IF raised THEN "exit_raised" ELSE "exit"
    /\ res' = [res EXCEPT ![t] = "none"]
    /\ IF websocket # None
       THEN /\ conns' = [conns EXCEPT ![websocket].open = FALSE]
            /\ Goto(t, "d_ws_wait", 0)
       ELSE /\ Goto(t, "d_sess_check", t)
            /\ UNCHANGED conns
    /\ UNCHANGED <<sessVars, websocket, message_id, event_listeners, nframes, httpVars,
                   config, ha_client, passed, got, rendered, response,
                   locals, dispVars>>

\* ------------------------------------------------------------------ tools
\* The replies a request of the client can get: a status with a body, or a
\* failure of the transport.
Replies ==
    {[op |-> "none", status |-> st, body |-> b] : st \in Statuses, b \in Bodies}
        \cup {[op |-> "none", status |-> 0, body |-> why] : why \in Failures}

\* What operation o of the client returns to a tool when its request gets the
\* reply r; without an open session it returns its sentinel, no request made.
ClientResult(o, r) ==
    IF session = None \/ ~sessions[session] THEN Sentinel(o) ELSE Result(o, r)

\* Python's truth value of what a client operation returned.
Truthy(v) == v \notin {"None", "False", "[]"}

CheckMark == "check_mark"
XMark == "x_mark"

\* Mutant of format_conversational_response: a failure gets no message.
format_conversational_response_Silent(success, action, details, conversational) ==
    LET base == details @@ [success |-> success, timestamp |-> "isoformat", action |-> action]
    IN  IF conversational /\ success
        THEN ("message" :> <<CheckMark, action, " completed successfully">>) @@ base
        ELSE base

\* _format_conversational_response(success, action, details, conversational):
\* the keys of details come after success, timestamp and action and replace
\* them; the message is set last, with the check mark on success (when
\* conversational) and the X mark on failure.
format_conversational_response(success, action, details, conversational) ==
    LET base == details @@ [success |-> success, timestamp |-> "isoformat", action |-> action]
        for_entity == IF "entity_id" \in DOMAIN details
                      THEN <<" for ", details["entity_id"]>> ELSE <<>>
        now_state == IF "new_state" \in DOMAIN details /\ Truthy(details["new_state"])
                     THEN <<" (now ", "state", ")">> ELSE <<>>
        error == IF "error" \in DOMAIN details THEN details["error"] ELSE "Unknown error"
    IN  IF conversational /\ success
        THEN ("message" :> (<<CheckMark, action, " completed successfully">>
                                \o for_entity \o now_state)) @@ base
        ELSE IF ~success
        THEN ("message" :> <<XMark, action, " failed: ", error>>) @@ base
        ELSE base

\* What a tool call leaves as it is: the tools are called from the server's
\* task while no call of the client is under way, and they return a response.
toolFrame == <<sessVars, websocket, conns, message_id, event_listeners,
               nframes, running, pc, res, locals, dispVars, httpVars,
               config, ha_client, passed, got, rendered, scope>>

\* query_entities(filter): with an entity id, get_state() and the entity or
\* "Entity not found"; otherwise get_states() and the list, empty or not.
query_entities(t, filter, r) ==
    /\ Call(t)
    /\ response' =
           IF ha_client = None
           THEN format_conversational_response(FALSE, "Entity discovery",
                    [error |-> "RuntimeError"], TRUE)
           ELSE IF filter = "entity_id"
           THEN IF Truthy(ClientResult("get_state", r))
                THEN format_conversational_response(TRUE, "Found entity",
                         [entity |-> "data", details |-> "State", attributes |-> "data",
                          context_help |-> "This"], TRUE)
                ELSE format_conversational_response(FALSE, "Entity lookup for",
                         [error |-> "Entity not found"], TRUE)
           ELSE format_conversational_response(TRUE, "Entity discovery completed",
                    [entities |-> ClientResult("get_states", r), filter_applied |-> filter],
                    TRUE)
    /\ UNCHANGED toolFrame

\* control_entity(request): call_service(), then get_state() of the entity
\* when the call succeeded and the request names one.
control_entity(t, entity_id, r1, r2) ==
    /\ Call(t)
    /\ response' =
           IF ha_client = None
           THEN format_conversational_response(FALSE, "Entity control",
                    [error |-> "RuntimeError", request |-> entity_id], TRUE)
           ELSE IF Truthy(ClientResult("call_service", r1))
           THEN format_conversational_response(TRUE, "Service call",
                    [entity_id |-> entity_id,
                     new_state |-> IF entity_id # "None"
                                   THEN ClientResult("get_state", r2) ELSE "None"], TRUE)
           ELSE format_conversational_response(FALSE, "Service call failed",
                    [entity_id |-> entity_id], TRUE)
    /\ UNCHANGED toolFrame

\* control_light(request): the client's control_light(), then get_state().
control_light(t, a, r1, r2) ==
    /\ Call(t)
    /\ response' =
           IF ha_client = None
           THEN format_conversational_response(FALSE, "Light control",
                    [error |-> "RuntimeError", request |-> "light.kitchen"], TRUE)
           ELSE IF /\ a \in DOMAIN ServiceMap("control_light")
                   /\ Truthy(ClientResult("call_service", r1))
           THEN format_conversational_response(TRUE, "Light",
                    [entity_id |-> "light.kitchen",
                     new_state |-> ClientResult("get_state", r2)], TRUE)
           ELSE format_conversational_response(FALSE, "Light",
                    [entity_id |-> "light.kitchen"], TRUE)
    /\ UNCHANGED toolFrame

\* execute_automation(entity_id): the client's execute_automation(), which is
\* call_service("automation", "trigger").
execute_automation(t, r) ==
    /\ Call(t)
    /\ response' =
           IF ha_client = None
           THEN format_conversational_response(FALSE, "Automation execution",
                    [error |-> "RuntimeError", entity_id |-> "automation.morning"], TRUE)
           ELSE IF Truthy(ClientResult("call_service", r))
           THEN format_conversational_response(TRUE, "Executed automation",
                    [entity_id |-> "automation.morning"], TRUE)
           ELSE format_conversational_response(FALSE, "Automation execution failed",
                    [entity_id |-> "automation.morning"], TRUE)
    /\ UNCHANGED toolFrame

\* get_available_events(): get_events(), whose list may be empty.
get_available_events(t, r) ==
    /\ Call(t)
    /\ response' =
           IF ha_client = None
           THEN format_conversational_response(FALSE, "Event discovery",
                    [error |-> "RuntimeError", events |-> "[]"], TRUE)
           ELSE format_conversational_response(TRUE, "Retrieved available events",
                    [events |-> ClientResult("get_events", r)], TRUE)
    /\ UNCHANGED toolFrame

\* ------------------------------------------------------------------ specifications
\* connect() and disconnect(), from await to await.
LifecycleStep(t) ==
    \/ connect(t)
    \/ DisconnectStart(t)
    \/ DisconnectWsClosed(t)
    \/ DisconnectSession(t)
    \/ DisconnectDone(t)

\* connect() and disconnect() of a client that holds no streaming connection.
SessionStep(t) ==
    \/ connect(t)
    \/ DisconnectStart(t)
    \/ DisconnectSession(t)
    \/ DisconnectDone(t)

\* disconnect() of a client that holds no session.
CloseStep(t) ==
    \/ DisconnectStart(t)
    \/ DisconnectWsClosed(t)
    \/ DisconnectSession(t)

\* connect_websocket(), from await to await.
ConnectStep(t) ==
    \/ ConnectAccepted(t)
    \/ ConnectRefused(t)
    \/ AuthRecvCall(t)
    \/ AuthRecvWake(t)
    \/ AuthResponse(t)

\* subscribe_events(), called with its default argument.
SubscribeStep(t) ==
    \/ CallSubscribe(t, "state_changed")
    \/ SubscribeSend(t)

\* listen_events() up to the dispatch.
ListenStep(t) ==
    \/ CallListen(t)
    \/ ListenIter(t)
    \/ ListenRecvCall(t)
    \/ ListenRecvWake(t)
    \/ ListenFrame(t)

\* A synchronous operation, from its call to its return.
SyncStep(t) ==
    \/ \E o \in SyncOps : CallSync(t, o)
    \/ SyncReturn(t)

\* control_light() and control_climate(), up to the request of call_service.
ControlStep(t) == \E h \in Helpers, a \in Actions : control(t, h, a)

\* The backend and the network of the synchronous channel.
Http(t) ==
    \/ \E st \in Statuses, b \in Bodies : HttpRespond(t, st, b)
    \/ \E why \in Failures : HttpFail(t, why)

\* The dispatch of one event to its listeners.
DispatchStep(t) ==
    \/ Dispatch(t)
    \/ \E raised \in BOOLEAN : ListenerDone(t, raised)

\* The backend in the connect sequence and after it, without events.
Handshake ==
    \/ \E c \in OpenConns, ty \in {"auth_ok", "auth_invalid"} : BackendSend(c, ty, "none")
    \/ \E c \in OpenConns : TransportClose(c)

\* The backend of the event dispatcher, on transports that stay open: a
\* handshake that succeeds, frames that are no events, and events of every type.
Events ==
    \/ \E c \in OpenConns, ty \in {"auth_ok", "result"} : BackendSend(c, ty, "none")
    \/ \E c \in OpenConns, T \in EventTypes : BackendSend(c, "event", T)

\* One caller, which calls the client's coroutines one after the other; no
\* listener is registered.
Next ==
    \/ LifecycleStep(1)
    \/ CallConnectWebsocket(1)
    \/ ConnectStep(1)
    \/ SubscribeStep(1)
    \/ ListenStep(1)
    \/ Handshake

Spec == Init /\ [][Next]_vars

\* Two tasks on one event loop, which call the streaming coroutines and
\* disconnect() concurrently.
ConcNext ==
    \/ \E t \in Tasks : CloseStep(t)
    \/ \E t \in Tasks : ConnectStep(t)
    \/ \E t \in Tasks : SubscribeStep(t)
    \/ \E t \in Tasks : ListenStep(t)
    \/ Handshake

ConcSpec == Init /\ [][ConcNext]_vars

\* The event dispatcher: task 1 listens, and task 2 registers listeners, before
\* the listening and while it and a dispatch are under way.
DispatchNext ==
    \/ \E T \in EventTypes, cb \in Callbacks : add_event_listener(2, T, cb)
    \/ ConnectStep(1)
    \/ ListenStep(1)
    \/ DispatchStep(1)
    \/ Events

DispatchSpec == Init /\ [][DispatchNext]_vars

\* The synchronous channel: one caller, which connects, disconnects and calls
\* the synchronous operations one after the other.
SyncNext ==
    \/ SessionStep(1)
    \/ SyncStep(1)
    \/ Http(1)

SyncSpec == Init /\ [][SyncNext]_vars

\* Both channels: one caller, which connects, disconnects, calls the
\* synchronous operations and opens the streaming channel by subscribe_events().  The backend answers a request or lets it time out,
\* and accepts or refuses the streaming connection and its credential.
LazyNext ==
    \/ LifecycleStep(1)
    \/ SyncStep(1)
    \/ HttpRespond(1, 200, "json")
    \/ HttpFail(1, "timeout")
    \/ ConnectStep(1)
    \/ SubscribeStep(1)
    \/ \E c \in OpenConns : BackendSend(c, "auth_ok", "none")

LazySpec == Init /\ [][LazyNext]_vars

\* The control helpers: one caller, which connects, disconnects and calls
\* control_light and control_climate with every action.
HelperNext ==
    \/ SessionStep(1)
    \/ ControlStep(1)
    \/ SyncReturn(1)
    \/ Http(1)

HelperSpec == Init /\ [][HelperNext]_vars

\* The synchronous channel on a client that also streams: one caller, which
\* connects, disconnects, subscribes and calls the synchronous operations and
\* the control helpers, with a known and with an unknown action; a second task
\* registers a listener.
ControlNext ==
    \/ add_event_listener(2, "state_changed", "cb1")
    \/ LifecycleStep(1)
    \/ SyncStep(1)
    \/ \E h \in Helpers, a \in {"turn_off", "dim"} : control(1, h, a)
    \/ HttpRespond(1, 200, "json")
    \/ HttpFail(1, "timeout")
    \/ ConnectStep(1)
    \/ SubscribeStep(1)
    \/ \E c \in OpenConns : BackendSend(c, "auth_ok", "none")

ControlSpec == Init /\ [][ControlNext]_vars

\* Configuration, the global accessor and the client's messages.
SetupNext ==
    \/ \E u \in Urls, w \in WebsocketUrls, tok \in Tokens : HomeAssistantConfig(u, w, tok)
    \/ \E c \in Clients : initialize_ha_client(c)
    \/ get_ha_client
    \/ \E d \in Sites, x \in Foreign, y \in Foreign : Render(d, x, y)

SetupSpec == Init /\ [][SetupNext]_vars

\* The single caller under the event loop's scheduling: a coroutine that can
\* go on is resumed.  Nothing obliges the backend to send or to close.
Resume(t) ==
    \/ DisconnectWsClosed(t)
    \/ DisconnectSession(t)
    \/ DisconnectDone(t)
    \/ ConnectStep(t)
    \/ SubscribeSend(t)
    \/ ListenIter(t)
    \/ ListenRecvCall(t)
    \/ ListenRecvWake(t)
    \/ ListenFrame(t)

FairSpec == Spec /\ WF_vars(Resume(1))

\* The listen loop alone under the same scheduling: task 1 calls
\* listen_events(), again after it has returned.
ListenNext ==
    \/ ConnectStep(1)
    \/ ListenStep(1)
    \/ Handshake

ListenSpec == Init /\ [][ListenNext]_vars /\ WF_vars(Resume(1))

\* Subscriptions from two tasks on one event loop, task 1 to state_changed
\* and task 2 to call_service; the backend accepts the credential.
SubscribeNext ==
    \/ \E t \in Tasks : ConnectStep(t)
    \/ CallSubscribe(1, "state_changed")
    \/ CallSubscribe(2, "call_service")
    \/ \E t \in Tasks : SubscribeSend(t)
    \/ \E c \in OpenConns : BackendSend(c, "auth_ok", "none")

SubscribeSpec == Init /\ [][SubscribeNext]_vars

\* The whole client with a listener registry in use: task 1 runs connect,
\* disconnect, get_state, subscribe_events and listen_events with its
\* dispatch; task 2 registers a listener for state_changed, again and again;
\* the backend answers the request, accepts or refuses the streaming
\* connection, and sends state_changed events.
RegistryNext ==
    \/ add_event_listener(2, "state_changed", "cb1")
    \/ LifecycleStep(1)
    \/ CallSync(1, "get_state")
    \/ SyncReturn(1)
    \/ HttpRespond(1, 404, "json")
    \/ ConnectStep(1)
    \/ SubscribeStep(1)
    \/ ListenStep(1)
    \/ DispatchStep(1)
    \/ \E c \in OpenConns : BackendSend(c, "auth_ok", "none")
    \/ \E c \in OpenConns : BackendSend(c, "event", "state_changed")

RegistrySpec == Init /\ [][RegistryNext]_vars

\* disconnect() has returned and has not been called again.
DisconnectReturned == pc[2] = "idle" /\ res[2] = "ok"

\* disconnect() interleaved with streaming calls: task 1 calls
\* subscribe_events() and listen_events(), task 2 calls disconnect(); once
\* disconnect() has returned, task 1 starts no new call (until disconnect() is
\* called again), and the calls under way go on.
InterleaveNext ==
    \/ ~DisconnectReturned /\ CallSubscribe(1, "state_changed")
    \/ ~DisconnectReturned /\ CallListen(1)
    \/ ConnectStep(1)
    \/ SubscribeSend(1)
    \/ ListenIter(1)
    \/ ListenRecvCall(1)
    \/ ListenRecvWake(1)
    \/ ListenFrame(1)
    \/ CloseStep(2)
    \/ \E c \in OpenConns : BackendSend(c, "auth_ok", "none")

InterleaveSpec == Init /\ [][InterleaveNext]_vars

\* One caller in `async with client` blocks: in the body it calls
\* subscribe_events() and get_state(), one after the other, and ends the body
\* normally or by raising.
ScopeNext ==
    \/ aenter(1)
    \/ scope = "body" /\ SubscribeStep(1)
    \/ scope = "body" /\ CallSync(1, "get_state")
    \/ SyncReturn(1)
    \/ ConnectStep(1)
    \/ \E raised \in BOOLEAN : aexit(1, raised)
    \/ DisconnectWsClosed(1)
    \/ DisconnectSession(1)
    \/ DisconnectDone(1)
    \/ HttpRespond(1, 200, "json")
    \/ \E c \in OpenConns, ty \in {"auth_ok", "auth_invalid"} : BackendSend(c, ty, "none")

ScopeSpec == Init /\ [][ScopeNext]_vars

\* listen_events() is suspended in the recv() of a connection that is the
\* client's, open and authenticated.
ListenActive ==
    /\ pc[1] = "l_recv"
    /\ websocket # None
    /\ rc[1] = websocket
    /\ conns[websocket].open
    /\ conns[websocket].ready

\* Calls made while the listen loop is active: task 1 runs listen_events(),
\* task 2 calls connect() and, once the loop is active, get_state(),
\* call_service() and subscribe_events(); every request is answered or fails
\* (the session's timeout), and a task that can go on does.
ActiveNext ==
    \/ ConnectStep(1)
    \/ ListenStep(1)
    \/ connect(2)
    \/ ListenActive /\ CallSubscribe(2, "state_changed")
    \/ SubscribeSend(2)
    \/ ListenActive /\ \E o \in {"get_state", "call_service"} : CallSync(2, o)
    \/ SyncReturn(2)
    \/ Http(2)
    \/ \E c \in OpenConns, ty \in {"auth_ok", "result"} : BackendSend(c, ty, "none")

ActiveSpec ==
    /\ Init
    /\ [][ActiveNext]_vars
    /\ WF_vars(Resume(1))
    /\ WF_vars(SubscribeSend(2) \/ SyncReturn(2))
    /\ WF_vars(Http(2))

\* The tools of the server, called one after the other on the global client,
\* initialized or not, connected or not.
ToolNext ==
    \/ \E c \in Clients : initialize_ha_client(c)
    \/ SessionStep(1)
    \/ \E f \in {"none", "entity_id", "domain"}, r \in Replies : query_entities(1, f, r)
    \/ \E e \in {"light.kitchen", "None"}, r1 \in Replies, r2 \in Replies :
           control_entity(1, e, r1, r2)
    \/ \E a \in {"on", "dim"}, r1 \in Replies, r2 \in Replies : control_light(1, a, r1, r2)
    \/ \E r \in Replies : execute_automation(1, r)
    \/ \E r \in Replies : get_available_events(1, r)

ToolSpec == Init /\ [][ToolNext]_vars

\* Shutdown of the listen loop: task 1 calls listen_events(), task 2 calls
\* disconnect(); the backend authenticates the connection, sends frames that
\* are no events, and keeps the transport open.
ShutdownNext ==
    \/ ConnectStep(1)
    \/ ListenStep(1)
    \/ CloseStep(2)
    \/ \E c \in OpenConns, ty \in {"auth_ok", "result"} : BackendSend(c, ty, "none")

ShutdownSpec == Init /\ [][ShutdownNext]_vars

\* ------------------------------------------------------------------ claims
InDisconnect(t) == pc[t] \in {"d_ws_wait", "d_sess_check", "d_sess_wait"}
InConnect(t) == pc[t] \in {"cw_connect", "cw_sent", "cw_recv", "cw_got"}
InDispatch(t) == pc[t] \in {"l_disp", "l_cb"}

\* C1: disconnect() is idempotent.  Whatever state the single caller's
\* disconnect() starts in, it returns normally with session = None and
\* websocket = None; and a disconnect() that starts in that closed state
\* changes neither handle, no session and no connection.
C1_DisconnectIdempotent ==
    [][/\ (InDisconnect(1) /\ pc'[1] = "idle")
            => (session' = None /\ websocket' = None /\ res'[1] = "ok")
       /\ ((InDisconnect(1) \/ InDisconnect(1)') /\ session = None /\ websocket = None)
            => UNCHANGED <<session, sessions, websocket, conns>>]_vars

\* C1 witness: a disconnect() under way on a client that an earlier
\* disconnect() has already closed (its session and its connection are closed).
C1_Witness ==
    /\ pc[1] = "d_sess_check"
    /\ session = None /\ websocket = None
    /\ Len(sessions) >= 1 /\ ~sessions[1]
    /\ Len(conns) >= 1 /\ conns[1].ready /\ ~conns[1].open

\* C2: connect() is idempotent.  A connect() called while a session exists
\* creates no session and leaves the session handle, the websocket handle, the
\* listener registry and the message counter as they were.
C2_ConnectIdempotent ==
    [][(connect(1) /\ session # None)
         => UNCHANGED <<session, sessions, websocket, event_listeners, message_id>>]_vars

\* C2 witness: a session exists, is open, and connect() can be called again.
C2_Witness ==
    /\ session # None
    /\ sessions[session]
    /\ websocket # None
    /\ ENABLED connect(1)

\* C3 (as claimed): on every connection the subscription frames carry the ids
\* 1, 2, ..., N in order.
C3_IdsAreOneToN ==
    \A c \in 1..Len(conns) :
        \A k \in 1..Len(conns[c].subs) : conns[c].subs[k].id = k

\* C4 (as claimed): the counter is reset when a new connection is opened, so
\* the first subscription frame of a connection opened after an earlier one
\* had carried subscriptions has id 1.
C4_CounterResetOnNewConnection ==
    \A c \in 1..Len(conns) :
        (/\ conns[c].subs # <<>>
         /\ \E d \in 1..(c - 1) : conns[d].subs # <<>>)
            => Head(conns[c].subs).id = 1

\* C5 (as claimed): a connect_websocket() made while the channel is Ready
\* creates no second connection and leaves the client's handle on the existing
\* one.
C5_NoSecondConnectionWhileReady ==
    [][(/\ pc[1] = "cw_connect"
        /\ websocket # None
        /\ conns[websocket].open
        /\ conns[websocket].ready)
         => (Len(conns') = Len(conns) /\ websocket' = websocket)]_vars

\* C6 (as claimed): of two callers that request a streaming operation
\* concurrently, only one opens a transport: a transport is opened only while
\* the client holds no connection.
C6_OneConnectAtATime ==
    [][Len(conns') > Len(conns) => websocket = None]_vars

\* C7: a first frame other than auth_ok fails the connect sequence.  The call
\* that triggered it ends by raising, websocket = None, the connection is not
\* marked Ready (and no connection becomes Ready on any other frame), and the
\* call sends no subscription frame and takes no id.
C7_AuthRejectionFailsConnect ==
    [][/\ (/\ pc[1] = "cw_got"
           /\ conns[rc[1]].inbox # <<>>
           /\ Head(conns[rc[1]].inbox).type # "auth_ok")
            => (/\ pc'[1] = "idle"
                /\ res'[1] = "AuthFailed"
                /\ websocket' = None
                /\ ~conns'[rc[1]].ready
                /\ message_id' = message_id
                /\ \A c \in 1..Len(conns) : conns'[c].subs = conns[c].subs)
       /\ \A c \in 1..Len(conns) :
            (conns'[c].ready /\ ~conns[c].ready)
                => (conns[c].inbox # <<>> /\ Head(conns[c].inbox).type = "auth_ok")]_vars

\* C7 witness: a call has ended with the authentication failure, the channel
\* is Closed, and the rejected connection never was Ready.
C7_Witness ==
    /\ pc[1] = "idle"
    /\ res[1] = "AuthFailed"
    /\ websocket = None
    /\ Len(conns) = 1 /\ ~conns[1].ready /\ conns[1].subs = <<>>

\* C8 (as claimed): when the connect sequence fails after the transport was
\* opened, the transport it opened is closed when the error reaches the caller.
C8_FailedConnectClosesTransport ==
    [][(/\ pc[1] \in {"cw_sent", "cw_recv", "cw_got"}
        /\ websocket # None
        /\ pc'[1] = "idle"
        /\ res'[1] # "ok")
         => ~conns'[websocket].open]_vars

\* C9 (as claimed): the wait for the authentication response is bounded: a
\* connect sequence that waits for the response leaves that wait.
C9_AuthWaitIsBounded ==
    (pc[1] = "cw_recv") ~> (pc[1] # "cw_recv")

\* C10: while task 1 dispatches an event frame, every invocation made so far
\* got that frame's payload and was, in order, of the listeners registered for
\* the frame's type; those registered before the frame was processed are the
\* first of them, so when the for loop ends each of them has been invoked
\* exactly once per registration.  An event of a type without listeners, and a
\* frame that is no event, invoke nothing and leave the loop running.
C10_DispatchExactlyOnce ==
    /\ [](InDispatch(1) =>
            LET ls == event_listeners[ev[1].event_type] IN
            /\ ev[1].type = "event"
            /\ Len(calls[1]) = idx[1] - 1
            /\ Len(calls[1]) <= Len(ls)
            /\ \A k \in 1..Len(calls[1]) :
                  calls[1][k].cb = ls[k] /\ calls[1][k].n = ev[1].n
            /\ Len(snap[1]) <= Len(ls)
            /\ \A k \in 1..Len(snap[1]) : snap[1][k] = ls[k]
            /\ (pc[1] = "l_disp" /\ idx[1] > Len(ls)) => Len(calls[1]) >= Len(snap[1]))
    /\ [][(/\ pc[1] = "l_got"
           /\ conns[rc[1]].inbox # <<>>
           /\ LET f == Head(conns[rc[1]].inbox) IN
              f.type # "event" \/ event_listeners[f.event_type] = <<>>)
            => (pc'[1] = "l_next" /\ calls' = calls /\ res' = res)]_vars

\* C10 witness: a dispatch has ended in which the two listeners of the event's
\* type were invoked while a listener of the other type was registered.
C10_Witness ==
    /\ pc[1] = "l_disp"
    /\ idx[1] > Len(event_listeners[ev[1].event_type])
    /\ Len(calls[1]) = 2
    /\ snap[1] = <<"cb1", "cb2">>
    /\ \E T \in EventTypes : T # ev[1].event_type /\ event_listeners[T] = <<"cb1">>

\* C11: listeners are not de-duplicated.  Every add_event_listener call makes
\* the list of its type one longer and adds one occurrence of its callback,
\* also when the callback is already there; and when the for loop of a
\* dispatch ends, each callback has been invoked as many times as it occurs in
\* the list of the event's type.
C11_NoDeduplication ==
    [][/\ \A T \in EventTypes, cb \in Callbacks :
            add_event_listener(2, T, cb) =>
                /\ Len(event_listeners'[T]) = Len(event_listeners[T]) + 1
                /\ Cardinality({k \in 1..Len(event_listeners'[T]) :
                                    event_listeners'[T][k] = cb})
                     = Cardinality({k \in 1..Len(event_listeners[T]) :
                                      event_listeners[T][k] = cb}) + 1
       /\ (pc[1] = "l_disp" /\ pc'[1] = "l_next") =>
            \A cb \in Callbacks :
                Cardinality({k \in 1..Len(calls[1]) : calls[1][k].cb = cb})
                 = Cardinality({k \in 1..Len(event_listeners[ev[1].event_type]) :
                                  event_listeners[ev[1].event_type][k] = cb})]_vars

\* C11 witness: the for loop has ended for an event whose type has the same
\* callback registered twice, and the callback was invoked twice.
C11_Witness ==
    /\ pc[1] = "l_disp"
    /\ event_listeners[ev[1].event_type] = <<"cb1", "cb1">>
    /\ idx[1] = 3
    /\ Len(calls[1]) = 2
    /\ calls[1][1].cb = "cb1" /\ calls[1][2].cb = "cb1"

\* C12: the registry changes only by appending one callback at the end of one
\* type's list (the lists of the other types and the earlier entries stay as
\* they are), and in a dispatch the k-th invocation is of the k-th entry of the
\* list of the event's type: the dispatch order is the registration order.
C12_RegistrationOrderIsDispatchOrder ==
    /\ [][event_listeners' # event_listeners =>
            \E T \in EventTypes, cb \in Callbacks :
                event_listeners' = [event_listeners EXCEPT ![T] = Append(@, cb)]]_vars
    /\ [](InDispatch(1) =>
            /\ Len(calls[1]) <= Len(event_listeners[ev[1].event_type])
            /\ \A k \in 1..Len(calls[1]) :
                  calls[1][k].cb = event_listeners[ev[1].event_type][k])

\* C12 witness: the for loop has ended for an event whose type had cb2
\* registered before cb1, with a registration for the other type present; cb2
\* was invoked first.
C12_Witness ==
    /\ pc[1] = "l_disp"
    /\ event_listeners[ev[1].event_type] = <<"cb2", "cb1">>
    /\ \E T \in EventTypes : T # ev[1].event_type /\ event_listeners[T] # <<>>
    /\ idx[1] = 3
    /\ Len(calls[1]) = 2
    /\ calls[1][1].cb = "cb2" /\ calls[1][2].cb = "cb1"

\* C13: a listener that raises does not keep the listeners after it from
\* running.  However an awaited listener ends, the for loop goes on to the
\* next position of the same event; while a position is left the listener at
\* it is invoked; and the for loop ends only when every listener of the
\* event's type has been invoked.
C13_ListenerFailureIsolated ==
    [][/\ (pc[1] = "l_cb" /\ pc'[1] # "l_cb") =>
            (/\ pc'[1] = "l_disp"
             /\ idx'[1] = idx[1] + 1
             /\ ev'[1] = ev[1]
             /\ Len(calls'[1]) = Len(calls[1]) + 1)
       /\ (pc[1] = "l_disp" /\ idx[1] <= Len(event_listeners[ev[1].event_type])) =>
            (pc'[1] = "l_cb" /\ idx'[1] = idx[1] /\ ev'[1] = ev[1])
       /\ (pc[1] = "l_disp" /\ pc'[1] = "l_next") =>
            (/\ Len(calls[1]) = Len(event_listeners[ev[1].event_type])
             /\ Len(calls[1]) >= Len(snap[1]))]_vars

\* C13 witness: the for loop has ended for an event with three listeners, of
\* which the second raised and the first and the third did not.
C13_Witness ==
    /\ pc[1] = "l_disp"
    /\ Len(event_listeners[ev[1].event_type]) = 3
    /\ Len(calls[1]) = 3
    /\ ~calls[1][1].raised /\ calls[1][2].raised /\ ~calls[1][3].raised

\* C14: a listener that raises does not end the listen loop.  The call is
\* still under way after the listener has ended, a dispatch is left only
\* towards the next frame, and an event received after a dispatch in which a
\* listener raised is dispatched to its listeners.
C14_ListenerFailureKeepsLoop ==
    [][/\ (pc[1] = "l_cb" /\ pc'[1] # "l_cb") =>
            (pc'[1] # "idle" /\ res'[1] = "none" /\ rc'[1] = rc[1])
       /\ (InDispatch(1) /\ ~InDispatch(1)') =>
            (pc'[1] = "l_next" /\ res'[1] = "none" /\ rc'[1] = rc[1])
       /\ (/\ pc[1] = "l_got"
           /\ prev[1].raised
           /\ conns[rc[1]].inbox # <<>>
           /\ ToDispatch(Head(conns[rc[1]].inbox))) =>
            (/\ pc'[1] = "l_disp"
             /\ ev'[1] = Head(conns[rc[1]].inbox)
             /\ idx'[1] = 1)]_vars

\* C14 witness: a listener is being invoked for an event frame received after
\* the frame in whose dispatch a listener raised.
C14_Witness ==
    /\ pc[1] = "l_cb"
    /\ prev[1].raised
    /\ prev[1].n > 0
    /\ ev[1].n > prev[1].n

\* C15: events are delivered in frame order.  While a frame is dispatched,
\* every invocation made is for that frame, the frames still queued on the
\* connection are later ones, and the dispatch completed before was of an
\* earlier frame; a dispatch begins only when none is under way, with the
\* oldest frame queued, and ends only when its for loop has ended.
C15_FrameOrder ==
    /\ [](InDispatch(1) =>
            /\ \A k \in 1..Len(calls[1]) : calls[1][k].n = ev[1].n
            /\ \A k \in 1..Len(conns[rc[1]].inbox) : conns[rc[1]].inbox[k].n > ev[1].n
            /\ prev[1].n < ev[1].n)
    /\ [][ev'[1] # ev[1] =>
            \/ /\ ev[1] = NoFrame
               /\ pc[1] = "l_got"
               /\ ev'[1] = Head(conns[rc[1]].inbox)
            \/ /\ ev'[1] = NoFrame
               /\ pc[1] = "l_disp"
               /\ idx[1] > Len(event_listeners[ev[1].event_type])]_vars

\* C15 witness: the dispatch of the third frame begins after the dispatch of
\* the second frame has completed.
C15_Witness ==
    /\ pc[1] = "l_disp"
    /\ idx[1] = 1
    /\ prev[1].n = 2
    /\ ev[1].n = 3

\* C16: every synchronous operation absorbs failure.  A call that issued a
\* request ends by returning a value, never by raising; and when the request
\* failed in the transport, timed out, or was answered with a status other than
\* 200, get_states and get_events return the empty list, get_state, get_config
\* and render_template return None, and call_service and test_connection
\* return False.
C16_SyncOpsAbsorbFailure ==
    [][(pc[1] = "h_wait" /\ pc'[1] = "idle") =>
        /\ res'[1] \in {"True", "False", "None", "[]", "data"}
        /\ (resp[1].body \in {"error", "timeout"} \/ resp[1].status # 200) =>
            /\ op[1] \in {"get_states", "get_events"} => res'[1] = "[]"
            /\ op[1] \in {"get_state", "get_config", "render_template"}
                 => res'[1] = "None"
            /\ op[1] \in {"call_service", "test_connection"} => res'[1] = "False"]_vars

\* C16 witness: get_states has returned the empty list after its request ran
\* into the timeout.
C16_Witness ==
    /\ pc[1] = "idle"
    /\ resp[1].op = "get_states"
    /\ resp[1].body = "timeout"
    /\ res[1] = "[]"

\* C17: a synchronous operation called while the client has no session
\* returns its sentinel (False for test_connection) at once: it does not
\* raise, issues no request, and leaves session = None and the sessions
\* created so far as they are.
C17_NoSessionReturnsSentinel ==
    [][\A o \in SyncOps :
        (CallSync(1, o) /\ session = None) =>
            /\ res'[1] \in {"False", "None", "[]"}
            /\ o = "test_connection" => res'[1] = "False"
            /\ pc'[1] = "idle"
            /\ requests' = requests
            /\ resp'[1] = NoResponse
            /\ session' = None
            /\ sessions' = sessions]_vars

\* C17 witness: test_connection has returned False on a client whose session
\* was created and closed again, and no request was ever issued.
C17_Witness ==
    /\ pc[1] = "idle"
    /\ session = None
    /\ Len(sessions) >= 1
    /\ requests = 0
    /\ res[1] = "False"

\* C18: no retries.  A request is issued only by the step that calls an
\* operation, one per call; while the call waits for the outcome and when it
\* takes it, no request is issued, and the call returns with the outcome of
\* that one request.
C18_NoRetries ==
    [][/\ requests' \in {requests, requests + 1}
       /\ requests' # requests => (pc[1] = "idle" /\ pc'[1] = "h_wait")
       /\ pc[1] = "h_wait" => requests' = requests
       /\ (pc[1] = "h_wait" /\ resp[1] # NoResponse /\ pc'[1] # pc[1]) => pc'[1] = "idle"]_vars

\* C18 witness: a call has returned its sentinel after the backend answered
\* with status 500, and one request was issued in all.
C18_Witness ==
    /\ pc[1] = "idle"
    /\ requests = 1
    /\ resp[1].status = 500
    /\ res[1] \in {"False", "None", "[]"}

\* C19: listen_events terminates when its transport closes.  A listen loop
\* whose connection is closed returns to its caller; when it finds the
\* connection closed and drained it returns normally at once and opens no
\* other connection.
C19_ListenEndsOnClose ==
    /\ ((pc[1] \in {"l_next", "l_recv", "l_got"} /\ ~conns[rc[1]].open)
          ~> (pc[1] = "idle"))
    /\ [][(pc[1] = "l_got" /\ conns[rc[1]].inbox = <<>>) =>
            (/\ pc'[1] = "idle"
             /\ res'[1] = "ok"
             /\ Len(conns') = Len(conns))]_vars

\* C19 witness: listen_events has returned normally on a connection that was
\* Ready and is closed.
C19_Witness ==
    /\ pc[1] = "idle"
    /\ res[1] = "ok"
    /\ websocket # None
    /\ conns[websocket].ready
    /\ ~conns[websocket].open
    /\ conns[websocket].inbox = <<>>

\* C20 (as claimed): when listen_events ends because its transport closed,
\* the client holds no connection handle any more (so that the next streaming
\* operation finds websocket = None and opens a new connection).
C20_ClosedAfterTransportClose ==
    [][(/\ pc[1] = "l_got"
        /\ conns[rc[1]].ready
        /\ ~conns[rc[1]].open
        /\ pc'[1] = "idle") => websocket' = None]_vars

\* C21: the streaming channel is opened lazily.  The client starts with
\* websocket = None; a connection is created, and websocket set to one, only by
\* the connect sequence of a streaming operation, never by connect(), by a
\* synchronous operation or by the backend's answers; and disconnect() leaves
\* websocket = None when it returns.
C21_StreamOpenedLazily ==
    [][/\ (conns' # conns /\ Len(conns') > Len(conns)) =>
             (pc[1] = "cw_connect" /\ op[1] \in {"subscribe", "listen", "connect_websocket"})
       /\ (websocket' # websocket /\ websocket' # None) =>
             (pc[1] = "cw_connect" /\ op[1] \in {"subscribe", "listen", "connect_websocket"})
       /\ (connect(1) \/ SyncStep(1) \/ Http(1)) => UNCHANGED <<websocket, conns>>
       /\ (InDisconnect(1) /\ pc'[1] = "idle") => websocket' = None]_vars

\* C21 witness: the client has connected and a synchronous operation has
\* returned the backend's data, and no streaming connection was ever opened.
C21_Witness ==
    /\ session # None
    /\ pc[1] = "idle"
    /\ requests >= 1
    /\ res[1] = "data"
    /\ websocket = None
    /\ conns = <<>>

\* C22: a subscription frame is sent only on a connection that is Ready: every
\* connection on which a subscribe_events frame was sent has had its auth_ok
\* taken by the connect sequence.
C22_SubscribeOnlyWhenReady ==
    \A c \in 1..Len(conns) : conns[c].subs # <<>> => conns[c].ready

\* C23: cooperative shutdown of listen_events.  disconnect() called while
\* listen_events is in its loop on an authenticated, open connection closes
\* that connection.
C23_DisconnectClosesListenedConnection ==
    [][(/\ pc[2] = "idle" /\ pc'[2] # "idle"
        /\ pc[1] \in {"l_next", "l_recv", "l_got"}
        /\ conns[rc[1]].ready /\ conns[rc[1]].open) =>
            ~conns'[rc[1]].open]_vars

\* C24: a frame whose type is not "event" is ignored by listen_events: the
\* loop takes it off the connection, calls no listener and starts no dispatch,
\* does not return, and goes on to ask for the next frame with the frames
\* behind it untouched.
C24_NonEventFramesIgnored ==
    [][(/\ pc[1] = "l_got" /\ pc'[1] # "l_got"
        /\ conns[rc[1]].inbox # <<>>
        /\ Head(conns[rc[1]].inbox).type # "event") =>
            /\ pc'[1] = "l_next"
            /\ event_data'[1] = Head(conns[rc[1]].inbox)
            /\ conns'[rc[1]].inbox = Tail(conns[rc[1]].inbox)
            /\ UNCHANGED <<ev, idx, calls, snap, prev, res, rc, websocket>>]_vars

\* C24 witness: the loop has taken a result frame, called nobody, and has
\* received the event behind it, for which a listener is registered.
C24_Witness ==
    /\ pc[1] = "l_got"
    /\ event_data[1].type = "result"
    /\ calls[1] = <<>>
    /\ prev[1] = NoDispatch
    /\ conns[rc[1]].inbox # <<>>
    /\ Head(conns[rc[1]].inbox).type = "event"
    /\ event_listeners[Head(conns[rc[1]].inbox).event_type] # <<>>

C26_AccessorReturnsLatestClient ==
    [][get_ha_client =>
        /\ passed = None => got' = [error |-> "RuntimeError", client |-> None]
        /\ passed # None => got' = [error |-> "none", client |-> passed]]_vars

\* C26 witness: initialize_ha_client was called with client 1 and then with
\* client 2, and the accessor has returned client 2.
C26_Witness ==
    /\ passed = 2
    /\ ha_client = 2
    /\ got = [error |-> "none", client |-> 2]

\* C27: get_state tells a 404 from a failure.  Both return None; on a 404 the
\* call logs the not-found warning and not the error of its except clause; on
\* a transport error, a timeout or status 500 it logs that error and not the
\* warning.
C27_NotFoundDistinctFromFailure ==
    [][(pc[1] = "h_wait" /\ pc'[1] = "idle" /\ op[1] = "get_state") =>
        /\ (resp[1].status = 404 /\ resp[1].body \notin Failures) =>
              /\ res'[1] = "None"
              /\ diag'[1] = [op |-> "get_state", call |-> "not_found"]
              /\ Level(diag'[1]) = "warning"
        /\ (resp[1].body \in Failures \/ resp[1].status = 500) =>
              /\ res'[1] = "None"
              /\ diag'[1] = [op |-> "get_state", call |-> "error"]
              /\ Level(diag'[1]) = "error"]_vars

\* C27 witness: get_state has returned None on a 404 and logged the warning.
C27_Witness ==
    /\ pc[1] = "idle"
    /\ resp[1].op = "get_state"
    /\ resp[1].status = 404
    /\ res[1] = "None"
    /\ diag[1].call = "not_found"

\* C28: a configuration built without a streaming address has the base address
\* with http:// turned into ws:// (https:// into wss://) and /api/websocket
\* appended; a streaming address that was given is kept as it is.
C28_WebsocketUrlDerived ==
    [][\A u \in Urls, w \in WebsocketUrls, tok \in Tokens :
        HomeAssistantConfig(u, w, tok) =>
            /\ config'.url = u
            /\ w # <<>> => config'.websocket_url = w
            /\ (w = <<>> /\ u[1] = "http://") =>
                  config'.websocket_url = <<"ws://">> \o Tail(u) \o <<"/api/websocket">>
            /\ (w = <<>> /\ u[1] = "https://") =>
                  config'.websocket_url = <<"wss://">> \o Tail(u) \o <<"/api/websocket">>]_vars

\* C28 witness: http://localhost:8123 gave ws://localhost:8123/api/websocket.
C28_Witness ==
    /\ config.url = <<"http://", "localhost:8123">>
    /\ config.websocket_url = <<"ws://", "localhost:8123", "/api/websocket">>

\* C29: the listener registry is append-only.  Whatever the client does
\* (connect, disconnect, a streaming connect that fails or succeeds, subscribe,
\* listen, dispatch, a synchronous operation), each event type's listener list
\* before the step is a prefix of its list after the step: no listener is
\* removed or moved.
C29_RegistryAppendOnly ==
    [][\A T \in EventTypes :
        /\ Len(event_listeners'[T]) >= Len(event_listeners[T])
        /\ SubSeq(event_listeners'[T], 1, Len(event_listeners[T])) = event_listeners[T]]_vars

\* C29 witness: two listeners are registered after the client has connected,
\* called get_state, subscribed, disconnected (session and first streaming
\* connection closed), opened a second streaming connection and dispatched an
\* event to the listeners.
C29_Witness ==
    /\ event_listeners["state_changed"] = <<"cb1", "cb1">>
    /\ prev[1].n > 0
    /\ requests >= 1
    /\ message_id >= 1
    /\ session = None /\ Len(sessions) >= 1
    /\ Len(conns) = 2 /\ ~conns[1].open /\ websocket = 2

\* C30: the message counter under concurrent subscribe_events calls.  On every
\* connection the subscription frames carry consecutive ids in the order they
\* were sent, each a value the counter has taken, and no id is carried by two
\* frames, on one connection or on two.
C30_SubscriptionIdsConsecutive ==
    /\ \A c \in 1..Len(conns) : \A k \in 1..Len(conns[c].subs) :
          /\ conns[c].subs[k].id \in 1..message_id
          /\ k > 1 => conns[c].subs[k].id = conns[c].subs[k - 1].id + 1
    /\ \A c, d \in 1..Len(conns) :
          \A k \in 1..Len(conns[c].subs), l \in 1..Len(conns[d].subs) :
             conns[c].subs[k].id = conns[d].subs[l].id => (c = d /\ k = l)

\* C30 witness: two subscribe_events calls are under way at once.  Task 1
\* opened the connection and has just been authenticated; task 2 called
\* subscribe_events in the meantime and has sent its frame, with id 1, on that
\* connection; task 1 is about to take the next id.
C30_Witness ==
    /\ pc[1] = "s_send" /\ op[1] = "subscribe" /\ rc[1] = 1
    /\ pc[2] = "idle" /\ res[2] = "ok"
    /\ Len(conns) = 1
    /\ conns[1].ready
    /\ conns[1].subs = <<[id |-> 1, event_type |-> "call_service"]>>
    /\ message_id = 1

\* C31: calls made by another task while listen_events() is active on an
\* authenticated connection complete.  A synchronous operation or a
\* subscribe_events() started then returns; subscribe_events() never enters
\* the connect sequence, and its frame goes, with success, to the connection
\* the loop listens on, no connection being opened.
C31_ConcurrentWithListen ==
    /\ (pc[2] # "idle") ~> (pc[2] = "idle")
    /\ [](pc[2] \in {"idle", "h_wait", "s_send"})
    /\ [][(pc[2] = "s_send" /\ pc'[2] = "idle") =>
            /\ res'[2] = "ok"
            /\ websocket' = websocket
            /\ websocket = rc[1]
            /\ Len(conns') = Len(conns)
            /\ Len(conns'[websocket].subs) = Len(conns[websocket].subs) + 1]_vars

\* The loop is still active on the one connection ever opened; another task
\* has got the reply of a request and has subscribed on that connection.
C31_Witness ==
    /\ ListenActive
    /\ Len(conns) = 1
    /\ pc[2] = "idle"
    /\ requests > 0
    /\ resp[2] # NoResponse
    /\ Len(conns[websocket].subs) > 0

\* C32: the format of a tool response.  Every response a tool returns has
\* the keys success, timestamp and message; the message has the check mark
\* and not the X mark when success is true, and the X mark and not the check
\* mark when success is false.
C32_ConversationalResponse ==
    (response # NoToolResponse) =>
        /\ {"success", "timestamp", "message"} \subseteq DOMAIN response
        /\ LET marks == {response["message"][k] : k \in 1..Len(response["message"])}
                            \cap {CheckMark, XMark}
           IN  marks = IF response["success"] THEN {CheckMark} ELSE {XMark}

\* control_entity on a connected client whose service call is refused: a
\* failure response with its message.
C32_Witness ==
    /\ response # NoToolResponse
    /\ ~response["success"]
    /\ response["action"] = "Service call failed"
    /\ response["message"][1] = XMark
    /\ session # None

\* C33: a tool response with success = false has an "error" key, whichever
\* path produced it: the entity not found of query_entities, the automation
\* that does not execute, the service call the client reports as failed.
C33_FailureCarriesError ==
    (response # NoToolResponse /\ ~response["success"]) => "error" \in DOMAIN response

\* C34: leaving an `async with client` block releases both channels.  Once
\* the caller is out of the block, the body having returned or raised, with or
\* without a streaming connection opened in it, the client holds no session
\* and no streaming connection, and every session it created is closed; the
\* exception of a body that raised has reached the caller, and no exception
\* has when the body returned.
C34_ScopedRelease ==
    (Left(1) /\ scope # "out") =>
        /\ session = None
        /\ websocket = None
        /\ \A k \in 1..Len(sessions) : ~sessions[k]
        /\ Propagated(1) <=> scope = "exit_raised"

\* The body opened a streaming connection, then raised; the block is left.
C34_Witness ==
    /\ Propagated(1)
    /\ Len(conns) > 0
    /\ conns[1].ready
    /\ ~conns[1].open
    /\ session = None
    /\ websocket = None

\* C35: disconnect() leaves the client closed.  When disconnect() has returned,
\* no streaming call was started since, and the call that was under way has
\* returned or waits for a frame on a connection with none to read, the client
\* holds no streaming connection.
C35_ClosedAfterDisconnect ==
    (/\ DisconnectReturned
     /\ \/ pc[1] = "idle"
        \/ /\ pc[1] = "l_recv"
           /\ conns[rc[1]].open
           /\ conns[rc[1]].inbox = <<>>) => websocket = None

\* C36: a dispatch invokes exactly the listeners that were registered for the
\* event's type when the dispatch began: when the for loop of a dispatch ends,
\* the invocations made are, in order, those of the list as it was when the
\* frame was taken, also when listeners were added in the meantime.
C36_DispatchUsesSnapshot ==
    [][(pc[1] = "l_disp" /\ pc'[1] = "l_next") =>
        /\ Len(calls[1]) = Len(snap[1])
        /\ \A k \in 1..Len(calls[1]) : calls[1][k].cb = snap[1][k]]_vars

\* C37: the synchronous operations and the control helpers have no effect on
\* the client's state.  The step that calls one and the step in which it
\* returns, with its value or with its sentinel, leave the session handle and
\* the sessions, the websocket handle and the connections, the message counter
\* and the listener registry as they are.
C37_SyncOpsFrame ==
    [][(\/ \E o \in SyncOps : CallSync(1, o)
        \/ ControlStep(1)
        \/ SyncReturn(1)) =>
            UNCHANGED <<session, sessions, websocket, conns, message_id,
                        event_listeners>>]_vars

\* C37 witness: an operation has returned its sentinel after a timeout on a
\* client that holds a session and an authenticated streaming connection, has
\* sent a subscription and has a listener registered.
C37_Witness ==
    /\ pc[1] = "idle"
    /\ resp[1].body = "timeout"
    /\ res[1] \in {"False", "None", "[]"}
    /\ session # None
    /\ websocket # None /\ conns[websocket].ready /\ conns[websocket].open
    /\ message_id >= 1
    /\ event_listeners["state_changed"] # <<>>

\* C38: control_light with an action other than on, off, toggle, and
\* control_climate with an action other than set_temperature, set_hvac_mode,
\* turn_on, turn_off, return False at once and issue no request.  With an
\* action of the set, on a client that has a session, one request is issued,
\* by call_service, for the mapped service of the helper's domain.
C38_ControlHelpers ==
    [][\A h \in Helpers, a \in Actions :
        LET valid == IF h = "control_light" THEN {"on", "off", "toggle"}
                     ELSE {"set_temperature", "set_hvac_mode", "turn_on", "turn_off"}
            service == CASE h = "control_light" /\ a = "on" -> "light.turn_on"
                         [] h = "control_light" /\ a = "off" -> "light.turn_off"
                         [] h = "control_light" /\ a = "toggle" -> "light.toggle"
                         [] OTHER -> "climate." \o a
        IN  control(1, h, a) =>
            /\ a \notin valid =>
                  /\ res'[1] = "False"
                  /\ pc'[1] = "idle"
                  /\ requests' = requests
            /\ (a \in valid /\ session # None /\ sessions[session]) =>
                  /\ requests' = requests + 1
                  /\ pc'[1] = "h_wait"
                  /\ op'[1] = "call_service"
                  /\ arg'[1] = service]_vars

\* C38 witness: control_light has returned False for an action that is not in
\* its map, on a connected client, and no request was ever issued.
C38_Witness ==
    /\ pc[1] = "idle"
    /\ session # None
    /\ res[1] = "False"
    /\ diag[1] = [op |-> "control_light", call |-> "error"]
    /\ requests = 0

\* C39: call_service returns True exactly when the backend answered with a
\* success status, whatever the body of the response: when the request was
\* answered with status 200, call_service returns True, and when it failed in
\* the transport or was answered with another status, it returns False.
C39_CallServiceResultFromStatus ==
    [][(pc[1] = "h_wait" /\ pc'[1] = "idle" /\ op[1] = "call_service") =>
        /\ (resp[1].body \notin Failures /\ resp[1].status = 200) => res'[1] = "True"
        /\ (resp[1].body \in Failures \/ resp[1].status # 200) => res'[1] = "False"]_vars

====
